---- MODULE Spec2Model ----
(***************************************************************************)
(* Task-graph execution engine of the A2/A3 runtime.                       *)
(*                                                                         *)
(* Two schedulers are modelled, each together with the worker polling loop *)
(* of aicore_kernel.cpp:                                                   *)
(*   variant "M": MultiThreadManager (platform/a2a3/aicpu/kernel.cpp) and  *)
(*                the multi-threaded execute (graphexecutor.cpp);          *)
(*   variant "S": the single scheduler of aicpu_kernel.cpp                 *)
(*                (handshake_aicore, execute_graph, shutdown_aicore).      *)
(*                                                                         *)
(* One step of a process is one access to shared memory (a handshake cell  *)
(* field, an atomic, a queue under its mutex) together with the local      *)
(* computation around it.                                                  *)
(***************************************************************************)
EXTENDS Integers, Sequences, FiniteSets, TLC

\* ------------------------------------------------------------------ bounds
\* Capacity of the ready-queue arrays and of the task table in the model.
MaxTasks == 4
\* Columns of core_assignments_ kept in the model (cores of one launch).
MaxCores == 4
\* Executes of the same graph that the host launches one after the other.
MaxExecs == 2

\* ------------------------------------------------------- program constants
MAX_AICPU_THREADS == 4
MAX_AIC_PER_THREAD == 24
MAX_AIV_PER_THREAD == 48
MAX_CORES_PER_THREAD == MAX_AIC_PER_THREAD + MAX_AIV_PER_THREAD

PTO_TASK_PENDING == 0
PTO_TASK_READY == 1
PTO_TASK_RUNNING == 2
PTO_TASK_COMPLETE == 3

\* ------------------------------------------------------------ task graphs
\* A graph is [n, core_type, fanout]; task ids are 0..n-1 and the entry of
\* task t is at index t+1 of the sequences.
Chain(n) ==
    [n |-> n, core_type |-> [k \in 1 .. n |-> 0],
     fanout |-> [k \in 1 .. n |-> IF k < n THEN << k >> ELSE << >>]]

\* The linear pipeline T0 -> T1 -> T2 of Cube tasks.
Pipeline == Chain(MaxTasks - 1)

Diamond ==
    [n |-> 4, core_type |-> <<0, 1, 1, 0>>,
     fanout |-> << <<1, 2>>, <<3>>, <<3>>, <<>> >>]

Join ==
    [n |-> 3, core_type |-> <<0, 1, 0>>,
     fanout |-> << <<2>>, <<2>>, <<>> >>]

Single ==
    [n |-> 1, core_type |-> <<0>>, fanout |-> << <<>> >>]

TwoCube ==
    [n |-> 2, core_type |-> <<0, 0>>, fanout |-> << <<>>, <<>> >>]

CubeVec ==
    [n |-> 2, core_type |-> <<0, 1>>, fanout |-> << <<1>>, <<>> >>]

\* The graph without tasks.
Empty == [n |-> 0, core_type |-> << >>, fanout |-> << >>]

\* The launches explored: scheduler variant, core layout, scheduler threads
\* and graph.
Scenarios ==
    { [variant |-> "M", nrAic |-> 1, nrAiv |-> 2, scheCpuNum |-> 1, graph |-> Diamond],
      [variant |-> "M", nrAic |-> 1, nrAiv |-> 2, scheCpuNum |-> 1, graph |-> Pipeline],
      [variant |-> "M", nrAic |-> 1, nrAiv |-> 2, scheCpuNum |-> 1, graph |-> TwoCube],
      [variant |-> "M", nrAic |-> 1, nrAiv |-> 1, scheCpuNum |-> 2, graph |-> Join],
      [variant |-> "M", nrAic |-> 1, nrAiv |-> MaxCores - 1, scheCpuNum |-> 1, graph |-> Single],
      [variant |-> "M", nrAic |-> 1, nrAiv |-> 3, scheCpuNum |-> 2, graph |-> Single],
      [variant |-> "M", nrAic |-> 1, nrAiv |-> 2, scheCpuNum |-> MAX_AICPU_THREADS + 1, graph |-> Single],
      [variant |-> "M", nrAic |-> MAX_AIC_PER_THREAD + 1, nrAiv |-> MAX_AIV_PER_THREAD, scheCpuNum |-> 1, graph |-> Single],
      [variant |-> "M", nrAic |-> 1, nrAiv |-> 2, scheCpuNum |-> 1, graph |-> Empty],
      [variant |-> "S", nrAic |-> 1, nrAiv |-> 1, scheCpuNum |-> 1, graph |-> Empty],
      [variant |-> "S", nrAic |-> 1, nrAiv |-> 1, scheCpuNum |-> 1, graph |-> CubeVec],
      [variant |-> "S", nrAic |-> 1, nrAiv |-> 1, scheCpuNum |-> 1, graph |-> TwoCube] }

Tasks(G) == 0 .. (G.n - 1)
FanoutOf(G, t) == G.fanout[t + 1]
CoreTypeOf(G, t) == G.core_type[t + 1]
SeqToSet(s) == { s[k] : k \in 1 .. Len(s) }
Preds(G, v) == { u \in Tasks(G) : v \in SeqToSet(FanoutOf(G, u)) }

\* Graph::add_successor increments the successor's fan-in once per edge.
InDegree(G, v) == Cardinality(Preds(G, v))

\* Graph::get_initial_ready_tasks: the tasks with fanin == 0, in id order.
RECURSIVE InitialReadyFrom(_, _, _)
InitialReadyFrom(G, fi, t) ==
    IF t >= G.n THEN << >>
    ELSE IF fi[t] = 0 THEN << t >> \o InitialReadyFrom(G, fi, t + 1)
         ELSE InitialReadyFrom(G, fi, t + 1)

get_initial_ready_tasks(G, fi) == InitialReadyFrom(G, fi, 0)

\* A task pointer stored in a cell: 0 is the null pointer.
TaskPtr(t) == t + 1
PtrTask(p) == p - 1

\* The invocation count of a kernel as recorded in the history: never,
\* once, more than once.
Inc(x) == IF x = 0 THEN 1 ELSE 2

\* ------------------------------------------------------------------ state
VARIABLES
    scen,              \* the launch (fixed during a behaviour)
    hank,              \* handshake cells: core -> record
    wpc, wtask,        \* worker: position in aicore_kernel, task_ptr
    spc,               \* scheduler thread: position
    th,                \* scheduler thread locals
    mgr,               \* MultiThreadManager g_mt_mgr
    ex,                \* statics of graphexecutor.cpp
    fanin,             \* Task::fanin (variant M)
    pg,                \* PTOTaskGraph: status, deps_remaining, tasks_completed
    hist,              \* observation only: dispatch / collect / run history
    host               \* host: executes launched, result of the first one

vars == << scen, hank, wpc, wtask, spc, th, mgr, ex, fanin, pg, hist, host >>

G == scen.graph
core_num == scen.nrAic + scen.nrAiv
Cores == 0 .. (core_num - 1)
Procs == 1 .. scen.scheCpuNum
IsM == scen.variant = "M"
IsS == scen.variant = "S"

\* Host reset of one cell (a2a3_runtime_execute step 1).
ResetCell_KeepControl(i, nAic) ==
    [aicpu_ready |-> 0, aicore_done |-> 0, control |-> IF i = 0 THEN 1 ELSE 0,
     task |-> 0, task_status |-> 0, core_type |-> IF i < nAic THEN 0 ELSE 1]

ResetCell(i, nAic) ==
    [aicpu_ready |-> 0, aicore_done |-> 0, control |-> 0, task |-> 0,
     task_status |-> 0, core_type |-> IF i < nAic THEN 0 ELSE 1]

ThreadInit ==
    [thread_idx |-> -1, i |-> 0, j |-> 0, core_id |-> -1,
     cur_thread_completed |-> 0, cur_thread_tasks_in_flight |-> 0,
     task_count |-> 0, ret |-> -1, rc |-> 0]

MgrInitial ==
    [thread_idx_ |-> 0, initialized_ |-> FALSE, init_done_ |-> FALSE,
     init_failed_ |-> FALSE, finished_ |-> 0, thread_num_ |-> 0,
     total_cores_ |-> 0, cores_per_thread_ |-> 0,
     core_assignments_ |->
        [t \in 0 .. (MAX_AICPU_THREADS - 1) |-> [k \in 0 .. (MaxCores - 1) |-> 0]]]

ExInitial ==
    [ready_queue_aic_ |-> [k \in 0 .. (MaxTasks - 1) |-> 0],
     ready_count_aic_ |-> 0,
     ready_queue_aiv_ |-> [k \in 0 .. (MaxTasks - 1) |-> 0],
     ready_count_aiv_ |-> 0,
     completed_tasks_ |-> 0, total_tasks_ |-> 0, init_done_ |-> FALSE,
     finished_count_ |-> 0,
     aic_mutex |-> 0, aiv_mutex |-> 0]

HistInitial(s) ==
    [runs |-> [t \in Tasks(s.graph) |-> 0],
     disp |-> [t \in Tasks(s.graph) |-> 0],
     coll |-> [t \in Tasks(s.graph) |-> 0],
     counted |-> [t \in Tasks(s.graph) |-> 0],
     dispBy |-> [t \in Tasks(s.graph) |-> {}],
     cdisp |-> [c \in 0 .. (s.nrAic + s.nrAiv - 1) |-> 0],
     ccoll |-> [c \in 0 .. (s.nrAic + s.nrAiv - 1) |-> 0],
     wr |-> [c \in 0 .. (s.nrAic + s.nrAiv - 1) |-> {}],
     mgrInit |-> 0, exInit |-> 0, resets |-> 0]

\* The host before the first launch returns: one execute launched.
HostInitial == [execs |-> 1, prev |-> -1, start |-> ExInitial]

Init ==
    /\ scen \in Scenarios
    /\ hank = [c \in 0 .. (scen.nrAic + scen.nrAiv - 1) |-> ResetCell(c, scen.nrAic)]
    /\ wpc = [c \in 0 .. (scen.nrAic + scen.nrAiv - 1) |-> "wait_ready"]
    /\ wtask = [c \in 0 .. (scen.nrAic + scen.nrAiv - 1) |-> 0]
    /\ spc = [p \in 1 .. scen.scheCpuNum |->
                IF scen.variant = "M" THEN "server" ELSE "handshake_ready"]
    /\ th = [p \in 1 .. scen.scheCpuNum |-> ThreadInit]
    /\ mgr = MgrInitial
    /\ ex = ExInitial
    /\ fanin = [t \in Tasks(scen.graph) |-> InDegree(scen.graph, t)]
    /\ pg = [status |-> [t \in Tasks(scen.graph) |-> PTO_TASK_PENDING],
             deps_remaining |-> [t \in Tasks(scen.graph) |-> InDegree(scen.graph, t)],
             tasks_completed |-> 0]
    /\ hist = HistInitial(scen)
    /\ host = HostInitial

\* ------------------------------------------------- worker: aicore_kernel
\* Phase 1: spin until aicpu_ready != 0.
aicore_wait_ready(c) ==
    /\ c \in Cores
    /\ wpc[c] = "wait_ready"
    /\ hank[c].aicpu_ready # 0
    /\ wpc' = [wpc EXCEPT ![c] = "ack"]
    /\ UNCHANGED << scen, host, hank, wtask, spc, th, mgr, ex, fanin, pg, hist >>

\* Phase 2: aicore_done = blockIdx + 1.
aicore_ack(c) ==
    /\ c \in Cores
    /\ wpc[c] = "ack"
    /\ hank' = [hank EXCEPT ![c].aicore_done = c + 1]
    /\ wpc' = [wpc EXCEPT ![c] = "top"]
    /\ UNCHANGED << scen, host, wtask, spc, th, mgr, ex, fanin, pg, hist >>

\* Top of the polling loop: invalidate, then read control.
aicore_poll_control(c) ==
    /\ c \in Cores
    /\ wpc[c] = "top"
    /\ wpc' = [wpc EXCEPT ![c] = IF hank[c].control = 1 THEN "exited" ELSE "chk"]
    /\ UNCHANGED << scen, host, hank, wtask, spc, th, mgr, ex, fanin, pg, hist >>

\* The doorbell test of the worker: the task pointer alone.
WorkerSeesTask(h) == h.task # 0

aicore_poll_task(c) ==
    /\ c \in Cores
    /\ wpc[c] = "chk"
    /\ wpc' = [wpc EXCEPT ![c] = IF WorkerSeesTask(hank[c]) THEN "rd" ELSE "top"]
    /\ UNCHANGED << scen, host, hank, wtask, spc, th, mgr, ex, fanin, pg, hist >>

\* Second read of the volatile task field; execute_task returns at once on
\* a null pointer, otherwise the kernel is invoked.
aicore_read_task(c) ==
    /\ c \in Cores
    /\ wpc[c] = "rd"
    /\ wtask' = [wtask EXCEPT ![c] = hank[c].task]
    /\ IF hank[c].task = 0
         THEN /\ wpc' = [wpc EXCEPT ![c] = "done"]
              /\ hist' = hist
         ELSE /\ wpc' = [wpc EXCEPT ![c] = "exec"]
              /\ hist' = [hist EXCEPT !.runs[PtrTask(hank[c].task)] = Inc(@)]
    /\ UNCHANGED << scen, host, hank, spc, th, mgr, ex, fanin, pg >>

\* The kernel returns.
aicore_kernel_return(c) ==
    /\ c \in Cores
    /\ wpc[c] = "exec"
    /\ wpc' = [wpc EXCEPT ![c] = "done"]
    /\ UNCHANGED << scen, host, hank, wtask, spc, th, mgr, ex, fanin, pg, hist >>

\* A worker that also clears the task pointer.
MarkComplete_ClearTask(h) == [h EXCEPT !.task_status = 0, !.task = 0]

\* The worker's write after the kernel (line 140).
MarkComplete(h) == [h EXCEPT !.task_status = 0]

\* my_hank->task_status = 0.
aicore_mark_complete(c) ==
    /\ c \in Cores
    /\ wpc[c] = "done"
    /\ hank' = [hank EXCEPT ![c] = MarkComplete(@)]
    /\ wpc' = [wpc EXCEPT ![c] = "top"]
    /\ wtask' = [wtask EXCEPT ![c] = 0]
    /\ UNCHANGED << scen, host, spc, th, mgr, ex, fanin, pg, hist >>

\* ------------------------------- variant M: MultiThreadManager (kernel.cpp)
\* The assignment table computed by Init: row t is {t, nrAic + 2t,
\* nrAic + 2t + 1} in columns 0..2; the other columns keep their zero.
CoreAssignments(thread_num, num_aic) ==
    [t \in 0 .. (MAX_AICPU_THREADS - 1) |->
        [k \in 0 .. (MaxCores - 1) |->
            IF t < thread_num /\ k = 0 THEN t
            ELSE IF t < thread_num /\ k = 1 THEN num_aic + t * 2
            ELSE IF t < thread_num /\ k = 2 THEN num_aic + t * 2 + 1
            ELSE 0]]

\* A check of the cores per thread only.
ConfigRejected_CoresOnly(thread_num, cores_per_thread) ==
    cores_per_thread > MAX_CORES_PER_THREAD

\* The configurations that Init refuses (lines 48-58).
ConfigRejected(thread_num, cores_per_thread) ==
    \/ thread_num < 1
    \/ thread_num > MAX_AICPU_THREADS
    \/ cores_per_thread > MAX_CORES_PER_THREAD

\* A compare-exchange that every thread wins.
InitTaken_Never(m) == FALSE

\* Init, line 32: the compare-exchange on initialized_ fails.
InitTaken(m) == m.initialized_

\* DynTileFwkBackendKernelServer step 1: g_mt_mgr.Init, the compare-exchange
\* on initialized_ (line 32).  The thread that wins runs the body; the
\* others return from Init at once and go to the wait of step 2.
MgrInit(p) ==
    /\ IsM /\ p \in Procs
    /\ spc[p] = "server"
    /\ IF InitTaken(mgr)
         THEN /\ mgr' = mgr
              /\ hist' = hist
              /\ spc' = [spc EXCEPT ![p] = "init_wait"]
         ELSE /\ mgr' = [mgr EXCEPT !.initialized_ = TRUE]
              /\ hist' = [hist EXCEPT !.mgrInit = @ + 1]
              /\ spc' = [spc EXCEPT ![p] = "mgr_init"]
    /\ UNCHANGED << scen, host, hank, wpc, wtask, th, ex, fanin, pg >>

\* The body of Init (lines 38-78): configuration, the two checks, the
\* assignment table, and the store of init_done_ or init_failed_.
MgrInit_body(p) ==
    /\ IsM /\ p \in Procs
    /\ spc[p] = "mgr_init"
    /\ LET tn == IF scen.scheCpuNum = 0 THEN 1 ELSE scen.scheCpuNum
           cpt == core_num \div tn
       IN  IF ConfigRejected(tn, cpt)
             THEN mgr' = [mgr EXCEPT !.thread_num_ = tn,
                                     !.total_cores_ = core_num,
                                     !.cores_per_thread_ = cpt,
                                     !.init_failed_ = TRUE]
             ELSE mgr' = [mgr EXCEPT !.thread_num_ = tn,
                                     !.total_cores_ = core_num,
                                     !.cores_per_thread_ = cpt,
                                     !.core_assignments_ =
                                         CoreAssignments(tn, scen.nrAic),
                                     !.init_done_ = TRUE]
    /\ spc' = [spc EXCEPT ![p] = "init_wait"]
    /\ UNCHANGED << scen, host, hank, wpc, wtask, th, ex, fanin, pg, hist >>

\* Steps 2-3 and the first statement of Run: wait for init_done_ (or leave
\* with -1 on init_failed_), then thread_idx = thread_idx_++.
Run(p) ==
    /\ IsM /\ p \in Procs
    /\ spc[p] = "init_wait"
    /\ IF mgr.init_done_
         THEN /\ th' = [th EXCEPT ![p].thread_idx = mgr.thread_idx_,
                                  ![p].i = 0]
              /\ mgr' = [mgr EXCEPT !.thread_idx_ = @ + 1]
              /\ spc' = [spc EXCEPT ![p] = "hank_ready"]
         ELSE /\ mgr.init_failed_
              /\ th' = [th EXCEPT ![p].rc = -1]
              /\ mgr' = mgr
              /\ spc' = [spc EXCEPT ![p] = "returned"]
    /\ UNCHANGED << scen, host, hank, wpc, wtask, ex, fanin, pg, hist >>

\* cur_thread_cores[k] of thread p.
OwnedCore(p, k) == mgr.core_assignments_[th[p].thread_idx][k]

\* HankAiCore, first loop: aicpu_ready = 1 on each assigned core.
HankAiCore_ready(p) ==
    /\ IsM /\ p \in Procs
    /\ spc[p] = "hank_ready"
    /\ IF th[p].i < mgr.cores_per_thread_
         THEN /\ hank' = [hank EXCEPT ![OwnedCore(p, th[p].i)].aicpu_ready = 1]
              /\ hist' = [hist EXCEPT !.wr[OwnedCore(p, th[p].i)] = @ \cup {p}]
              /\ th' = [th EXCEPT ![p].i = @ + 1]
              /\ spc' = spc
         ELSE /\ hank' = hank
              /\ hist' = hist
              /\ th' = [th EXCEPT ![p].i = 0]
              /\ spc' = [spc EXCEPT ![p] = "hank_wait"]
    /\ UNCHANGED << scen, host, wpc, wtask, mgr, ex, fanin, pg >>

\* A wait that every cell passes.
CoreAcked_Any(h) == TRUE

\* The cell has been acknowledged by its worker (line 112).
CoreAcked(h) == h.aicore_done # 0

\* HankAiCore, second loop: spin on aicore_done of each assigned core.
HankAiCore_wait(p) ==
    /\ IsM /\ p \in Procs
    /\ spc[p] = "hank_wait"
    /\ IF th[p].i < mgr.cores_per_thread_
         THEN /\ CoreAcked(hank[OwnedCore(p, th[p].i)])
              /\ th' = [th EXCEPT ![p].i = @ + 1]
              /\ spc' = spc
         ELSE /\ th' = [th EXCEPT ![p].i = 0]
              /\ spc' = [spc EXCEPT ![p] = "exec_init"]
    /\ UNCHANGED << scen, host, hank, wpc, wtask, mgr, ex, fanin, pg, hist >>

\* ------------------------------------ variant M: execute (graphexecutor.cpp)
QueueField(kind) == IF kind = 0 THEN "ready_queue_aic_" ELSE "ready_queue_aiv_"
CountField(kind) == IF kind = 0 THEN "ready_count_aic_" ELSE "ready_count_aiv_"
MutexField(kind) == IF kind = 0 THEN "aic_mutex" ELSE "aiv_mutex"

\* A push that always writes slot 0.
QueuePush_AtZero(e, kind, id) ==
    [e EXCEPT ![QueueField(kind)][0] = id,
              ![CountField(kind)] = @ + 1]

\* ready_queue[idx] = dep_id; ready_count.fetch_add(1), under the mutex.
QueuePush(e, kind, id) ==
    [e EXCEPT ![QueueField(kind)][e[CountField(kind)]] = id,
              ![CountField(kind)] = @ + 1]

\* The entry that a pop takes: ready_queue[count - 1].
QueueTop(e, kind) == e[QueueField(kind)][e[CountField(kind)] - 1]

\* A pop that leaves the count as it was.
QueuePop_NoDecrement(e, kind, p) == [e EXCEPT ![MutexField(kind)] = p]

\* ready_count.fetch_sub(1) under the mutex, which thread p keeps.
QueuePop(e, kind, p) ==
    [e EXCEPT ![CountField(kind)] = @ - 1, ![MutexField(kind)] = p]

\* A decrement by two.
FetchSub_Twice(f, dep) == [f EXCEPT ![dep] = @ - 2]

\* dep->fanin.fetch_sub(1).
FetchSub(f, dep) == [f EXCEPT ![dep] = @ - 1]

\* Thread 0 splits the initially ready tasks by core type.
FillQueue(arr, sel) ==
    [k \in 0 .. (MaxTasks - 1) |-> IF k < Len(sel) THEN sel[k + 1] ELSE arr[k]]

IsAic(t) == CoreTypeOf(G, t) = 0
IsAiv(t) == CoreTypeOf(G, t) # 0

\* A thread that does not wait for init_done_.
InitDoneSeen_Always(e) == TRUE

\* The wait of the threads other than thread 0 (line 94).
InitDoneSeen(e) == e.init_done_

\* Lines 58-103: thread 0 initialises the shared state, the other threads
\* spin on init_done_; then task_count = total_tasks_.
execute_init(p) ==
    /\ IsM /\ p \in Procs
    /\ spc[p] = "exec_init"
    /\ IF th[p].thread_idx = 0
         THEN LET ready == get_initial_ready_tasks(G, fanin)
                  aic == SelectSeq(ready, IsAic)
                  aiv == SelectSeq(ready, IsAiv)
              IN  /\ ex' = [ex EXCEPT !.total_tasks_ = G.n,
                                      !.completed_tasks_ = 0,
                                      !.ready_queue_aic_ = FillQueue(@, aic),
                                      !.ready_queue_aiv_ = FillQueue(@, aiv),
                                      !.ready_count_aic_ = Len(aic),
                                      !.ready_count_aiv_ = Len(aiv),
                                      !.finished_count_ = 0,
                                      !.init_done_ = TRUE]
                  /\ th' = [th EXCEPT ![p].task_count = G.n,
                                      ![p].cur_thread_completed = 0,
                                      ![p].cur_thread_tasks_in_flight = 0]
                  /\ hist' = [hist EXCEPT !.exInit = @ + 1]
         ELSE /\ InitDoneSeen(ex)
              /\ ex' = ex
              /\ hist' = hist
              /\ th' = [th EXCEPT ![p].task_count = ex.total_tasks_,
                                  ![p].cur_thread_completed = 0,
                                  ![p].cur_thread_tasks_in_flight = 0]
    /\ spc' = [spc EXCEPT ![p] = "loop"]
    /\ UNCHANGED << scen, host, hank, wpc, wtask, mgr, fanin, pg >>

\* A loop that stops one completion early.
LoopContinues_Short(completed, task_count) == completed + 1 < task_count

\* The loop condition (line 107).
LoopContinues(completed, task_count) == completed < task_count

\* Line 107: while (completed_tasks_ < task_count).
execute_loop(p) ==
    /\ IsM /\ p \in Procs
    /\ spc[p] = "loop"
    /\ spc' = [spc EXCEPT ![p] =
                 IF LoopContinues(ex.completed_tasks_, th[p].task_count)
                   THEN "p1" ELSE "fin"]
    /\ th' = [th EXCEPT ![p].i = 0]
    /\ UNCHANGED << scen, host, hank, wpc, wtask, mgr, ex, fanin, pg, hist >>

\* A completion recognised by the task pointer alone.
CoreFinished_Busy(h) == h.task # 0

\* Completion test of the scheduler (line 115).
CoreFinished(h) == h.task_status = 0 /\ h.task # 0

\* Phase 1, one core: recognise a completion or move on (lines 110-120).
execute_collect(p) ==
    /\ IsM /\ p \in Procs
    /\ spc[p] = "p1"
    /\ IF th[p].i >= mgr.cores_per_thread_
         THEN /\ spc' = [spc EXCEPT ![p] = "gate"]
              /\ th' = th
              /\ hist' = hist
         ELSE LET c == OwnedCore(p, th[p].i)
              IN  IF CoreFinished(hank[c])
                    THEN /\ spc' = [spc EXCEPT ![p] = "fan"]
                         /\ th' = [th EXCEPT ![p].j = 0, ![p].core_id = c]
                         /\ hist' = [hist EXCEPT
                                       !.coll[PtrTask(hank[c].task)] = @ + 1,
                                       !.ccoll[c] = @ + 1]
                    ELSE /\ spc' = spc
                         /\ th' = [th EXCEPT ![p].i = @ + 1]
                         /\ hist' = hist
    /\ UNCHANGED << scen, host, hank, wpc, wtask, mgr, ex, fanin, pg >>

\* A successor pushed on every decrement.
BecomesReady_Early(prev_fanin) == prev_fanin >= 1

\* The value of prev_fanin that makes a successor ready (line 131).
BecomesReady(prev_fanin) == prev_fanin = 1

\* Phase 1, fan-out loop (lines 123-146): one successor per step, fetch_sub
\* and, when the dependency is resolved, the push under the queue's mutex
\* (position "push": the decrement is done and the thread waits for the
\* mutex).  After the last successor: clear the task pointer and count
\* (lines 148-152).
execute_fanout(p) ==
    /\ IsM /\ p \in Procs
    /\ spc[p] \in {"fan", "push"}
    /\ LET c == th[p].core_id
           t == PtrTask(hank[c].task)
           out == FanoutOf(G, t)
       IN  IF th[p].j < Len(out)
             THEN LET dep == out[th[p].j + 1]
                      kind == IF CoreTypeOf(G, dep) = 0 THEN 0 ELSE 1
                  IN  /\ hank' = hank
                      /\ hist' = hist
                      /\ IF spc[p] = "push"
                           THEN /\ ex[MutexField(kind)] = 0
                                /\ fanin' = fanin
                                /\ ex' = QueuePush(ex, kind, dep)
                                /\ th' = [th EXCEPT ![p].j = @ + 1]
                                /\ spc' = [spc EXCEPT ![p] = "fan"]
                           ELSE /\ fanin' = FetchSub(fanin, dep)
                                /\ IF BecomesReady(fanin[dep])
                                     THEN IF ex[MutexField(kind)] = 0
                                            THEN /\ ex' = QueuePush(ex, kind, dep)
                                                 /\ th' = [th EXCEPT ![p].j = @ + 1]
                                                 /\ spc' = spc
                                            ELSE /\ ex' = ex
                                                 /\ th' = th
                                                 /\ spc' = [spc EXCEPT ![p] = "push"]
                                     ELSE /\ ex' = ex
                                          /\ th' = [th EXCEPT ![p].j = @ + 1]
                                          /\ spc' = spc
             ELSE /\ hank' = [hank EXCEPT ![c].task = 0]
                  /\ ex' = [ex EXCEPT !.completed_tasks_ = @ + 1]
                  /\ th' = [th EXCEPT ![p].cur_thread_tasks_in_flight = @ - 1,
                                      ![p].cur_thread_completed = @ + 1,
                                      ![p].i = @ + 1, ![p].core_id = -1,
                                      ![p].j = 0]
                  /\ hist' = [hist EXCEPT !.counted[t] = @ + 1,
                                          !.wr[c] = @ \cup {p}]
                  /\ fanin' = fanin
                  /\ spc' = [spc EXCEPT ![p] = "p1"]
    /\ UNCHANGED << scen, host, wpc, wtask, mgr, pg >>

\* A yield test that never skips the dispatch phase.
AllBusy_Never(in_flight, n) == FALSE

\* Line 157: every owned core is busy.
AllBusy(in_flight, n) == in_flight >= n

\* Lines 157-159: skip the dispatch phase when all owned cores are busy.
execute_gate(p) ==
    /\ IsM /\ p \in Procs
    /\ spc[p] = "gate"
    /\ spc' = [spc EXCEPT ![p] =
                 IF AllBusy(th[p].cur_thread_tasks_in_flight, mgr.cores_per_thread_)
                   THEN "loop" ELSE "p2"]
    /\ th' = [th EXCEPT ![p].i = 0]
    /\ UNCHANGED << scen, host, hank, wpc, wtask, mgr, ex, fanin, pg, hist >>

\* The idle test without the task pointer.
CoreIdle_StatusOnly(h) == h.task_status = 0

\* Idle test of the dispatch phase (line 167).
CoreIdle(h) == h.task_status = 0 /\ h.task = 0

\* Every cell served from the AIC queue.
QueueOfCell_Aic(h) == 0

\* The queue a cell is served from (lines 169, 186): by the cell's core_type.
QueueOfCell(h) == h.core_type

\* Phase 2, one core (lines 162-181 / 186-198): pop from the matching queue
\* under its mutex and write the task pointer; the mutex stays held.
execute_dispatch(p) ==
    /\ IsM /\ p \in Procs
    /\ spc[p] = "p2"
    /\ IF th[p].i >= mgr.cores_per_thread_
         THEN /\ spc' = [spc EXCEPT ![p] = "loop"]
              /\ UNCHANGED << th, hank, ex, hist >>
         ELSE LET c == OwnedCore(p, th[p].i)
                  kind == QueueOfCell(hank[c])
              IN  IF CoreIdle(hank[c]) /\ kind \in {0, 1} /\ ex[CountField(kind)] > 0
                    THEN /\ ex[MutexField(kind)] = 0
                         /\ LET t == QueueTop(ex, kind)
                            IN  /\ ex' = QueuePop(ex, kind, p)
                                /\ hank' = [hank EXCEPT ![c].task = TaskPtr(t)]
                                /\ hist' = [hist EXCEPT !.disp[t] = @ + 1,
                                                        !.dispBy[t] = @ \cup {p},
                                                        !.cdisp[c] = @ + 1,
                                                        !.wr[c] = @ \cup {p}]
                         /\ th' = [th EXCEPT ![p].core_id = c]
                         /\ spc' = [spc EXCEPT ![p] = "publish"]
                    ELSE /\ th' = [th EXCEPT ![p].i = @ + 1]
                         /\ UNCHANGED << spc, hank, ex, hist >>
    /\ UNCHANGED << scen, host, wpc, wtask, mgr, fanin, pg >>

\* Lines 182-184 / 199-201: task_status = 1, count in flight, release.
execute_publish(p) ==
    /\ IsM /\ p \in Procs
    /\ spc[p] = "publish"
    /\ LET c == th[p].core_id
           kind == QueueOfCell(hank[c])
       IN  /\ hank' = [hank EXCEPT ![c].task_status = 1]
           /\ ex' = [ex EXCEPT ![MutexField(kind)] = 0]
    /\ th' = [th EXCEPT ![p].cur_thread_tasks_in_flight = @ + 1,
                        ![p].i = @ + 1, ![p].core_id = -1]
    /\ spc' = [spc EXCEPT ![p] = "p2"]
    /\ UNCHANGED << scen, host, wpc, wtask, mgr, fanin, pg, hist >>

\* Every thread taken for the last one.
LastThread_Every(prev_finished, thread_num) == prev_finished + 1 >= 1

\* The thread that resets the shared state (line 212).
LastThread(prev_finished, thread_num) == prev_finished + 1 = thread_num

\* A reset that leaves init_done_ set.
ResetShared_KeepInitDone(e) ==
    [e EXCEPT !.ready_count_aic_ = 0,
              !.ready_count_aiv_ = 0,
              !.completed_tasks_ = 0,
              !.total_tasks_ = 0,
              !.finished_count_ = 0]

\* The stores of the last thread (lines 215-220).
ResetShared(e) ==
    [e EXCEPT !.ready_count_aic_ = 0,
              !.ready_count_aiv_ = 0,
              !.completed_tasks_ = 0,
              !.total_tasks_ = 0,
              !.init_done_ = FALSE,
              !.finished_count_ = 0]

\* Lines 211-223: exit barrier; the last thread resets the shared state.
execute_finish(p) ==
    /\ IsM /\ p \in Procs
    /\ spc[p] = "fin"
    /\ IF LastThread(ex.finished_count_, mgr.thread_num_)
         THEN /\ ex' = ResetShared(ex)
              /\ hist' = [hist EXCEPT !.resets = @ + 1]
         ELSE /\ ex' = [ex EXCEPT !.finished_count_ = @ + 1]
              /\ hist' = hist
    /\ th' = [th EXCEPT ![p].ret = th[p].cur_thread_completed, ![p].i = 0]
    /\ spc' = [spc EXCEPT ![p] = "shutdown"]
    /\ UNCHANGED << scen, host, hank, wpc, wtask, mgr, fanin, pg >>

\* ShutdownAiCore: control = 1 on each assigned core; then step 5 of the
\* server: finished_++ and DeInit by the last thread.
ShutdownAiCore(p) ==
    /\ IsM /\ p \in Procs
    /\ spc[p] = "shutdown"
    /\ IF th[p].i < mgr.cores_per_thread_
         THEN /\ hank' = [hank EXCEPT ![OwnedCore(p, th[p].i)].control = 1]
              /\ hist' = [hist EXCEPT !.wr[OwnedCore(p, th[p].i)] = @ \cup {p}]
              /\ th' = [th EXCEPT ![p].i = @ + 1]
              /\ UNCHANGED << spc, mgr >>
         ELSE /\ hank' = hank
              /\ hist' = hist
              /\ th' = [th EXCEPT ![p].i = 0]
              /\ spc' = [spc EXCEPT ![p] = "returned"]
              /\ IF mgr.finished_ + 1 = mgr.thread_num_
                   THEN mgr' = [mgr EXCEPT !.initialized_ = FALSE,
                                           !.init_done_ = FALSE,
                                           !.init_failed_ = FALSE,
                                           !.thread_idx_ = 0,
                                           !.finished_ = 0]
                   ELSE mgr' = [mgr EXCEPT !.finished_ = @ + 1]
    /\ UNCHANGED << scen, host, wpc, wtask, ex, fanin, pg >>

\* --------------------------------- variant S: aicpu_kernel.cpp (one thread)
aic_num == scen.nrAic

\* handshake_aicore, phase 1: aicpu_ready = 1 on every core.
handshake_aicore_ready(p) ==
    /\ IsS /\ p \in Procs
    /\ spc[p] = "handshake_ready"
    /\ IF th[p].i < core_num
         THEN /\ hank' = [hank EXCEPT ![th[p].i].aicpu_ready = 1]
              /\ th' = [th EXCEPT ![p].i = @ + 1]
              /\ spc' = spc
         ELSE /\ hank' = hank
              /\ th' = [th EXCEPT ![p].i = 0]
              /\ spc' = [spc EXCEPT ![p] = "handshake_wait"]
    /\ UNCHANGED << scen, host, wpc, wtask, mgr, ex, fanin, pg, hist >>

\* handshake_aicore, phase 2: busy-wait on aicore_done of every core.
handshake_aicore_wait(p) ==
    /\ IsS /\ p \in Procs
    /\ spc[p] = "handshake_wait"
    /\ IF th[p].i < core_num
         THEN /\ hank[th[p].i].aicore_done # 0
              /\ th' = [th EXCEPT ![p].i = @ + 1]
              /\ spc' = spc
         ELSE /\ th' = [th EXCEPT ![p].i = 0]
              /\ spc' = [spc EXCEPT ![p] = "graph_init"]
    /\ UNCHANGED << scen, host, hank, wpc, wtask, mgr, ex, fanin, pg, hist >>

\* A test that no graph passes.
EmptyGraph_Never(num_tasks) == FALSE

\* execute_graph, line 213: the graph has no task.
EmptyGraph(num_tasks) == num_tasks = 0

\* execute_graph, lines 213-227: an empty graph returns at once; otherwise
\* the tasks with dep_count == 0 are marked ready.
execute_graph_init(p) ==
    /\ IsS /\ p \in Procs
    /\ spc[p] = "graph_init"
    /\ IF EmptyGraph(G.n)
         THEN /\ pg' = pg
              /\ th' = [th EXCEPT ![p].ret = 0, ![p].i = 0]
              /\ spc' = [spc EXCEPT ![p] = "shutdown_aicore"]
         ELSE /\ pg' = [pg EXCEPT !.status =
                          [t \in Tasks(G) |->
                             IF InDegree(G, t) = 0 THEN PTO_TASK_READY
                             ELSE pg.status[t]]]
              /\ th' = th
              /\ spc' = [spc EXCEPT ![p] = "graph_loop"]
    /\ UNCHANGED << scen, host, hank, wpc, wtask, mgr, ex, fanin, hist >>

\* execute_graph, line 230: while (tasks_completed < num_tasks).
execute_graph_loop(p) ==
    /\ IsS /\ p \in Procs
    /\ spc[p] = "graph_loop"
    /\ IF pg.tasks_completed < G.n
         THEN /\ spc' = [spc EXCEPT ![p] = "schedule"]
              /\ th' = [th EXCEPT ![p].i = 0]
         ELSE /\ spc' = [spc EXCEPT ![p] = "shutdown_aicore"]
              /\ th' = [th EXCEPT ![p].i = 0, ![p].ret = pg.tasks_completed]
    /\ UNCHANGED << scen, host, hank, wpc, wtask, mgr, ex, fanin, pg, hist >>

\* schedule_tasks, line 111: the cores that are skipped.
CoreBusy(h) == h.task # 0 /\ h.task_status # 0

\* schedule_tasks, line 116: the kind of a core.
CoreKind(core_id) == IF core_id < aic_num THEN 0 ELSE 1

\* schedule_tasks, lines 119-130: the ready tasks that fit a core.
ReadyFor(core_id) ==
    { t \in Tasks(G) : /\ pg.status[t] = PTO_TASK_READY
                       /\ CoreTypeOf(G, t) = CoreKind(core_id) }

Min(S) == CHOOSE x \in S : \A y \in S : x <= y

\* schedule_tasks, one core: skip a busy core, else assign the first fitting
\* ready task (status RUNNING, task pointer written).
schedule_tasks(p) ==
    /\ IsS /\ p \in Procs
    /\ spc[p] = "schedule"
    /\ IF th[p].i >= core_num
         THEN /\ spc' = [spc EXCEPT ![p] = "check"]
              /\ th' = [th EXCEPT ![p].i = 0]
              /\ UNCHANGED << hank, pg, hist >>
         ELSE LET c == th[p].i
              IN  IF CoreBusy(hank[c]) \/ ReadyFor(c) = {}
                    THEN /\ th' = [th EXCEPT ![p].i = @ + 1]
                         /\ UNCHANGED << spc, hank, pg, hist >>
                    ELSE LET t == Min(ReadyFor(c))
                         IN  /\ pg' = [pg EXCEPT !.status[t] = PTO_TASK_RUNNING]
                             /\ hank' = [hank EXCEPT ![c].task = TaskPtr(t)]
                             /\ hist' = [hist EXCEPT !.disp[t] = @ + 1,
                                                     !.dispBy[t] = @ \cup {p},
                                                     !.cdisp[c] = @ + 1]
                             /\ th' = [th EXCEPT ![p].core_id = c]
                             /\ spc' = [spc EXCEPT ![p] = "mark_busy"]
    /\ UNCHANGED << scen, host, wpc, wtask, mgr, ex, fanin >>

\* schedule_tasks, line 135: task_status = 1.
schedule_mark_busy(p) ==
    /\ IsS /\ p \in Procs
    /\ spc[p] = "mark_busy"
    /\ hank' = [hank EXCEPT ![th[p].core_id].task_status = 1]
    /\ th' = [th EXCEPT ![p].i = @ + 1, ![p].core_id = -1]
    /\ spc' = [spc EXCEPT ![p] = "schedule"]
    /\ UNCHANGED << scen, host, wpc, wtask, mgr, ex, fanin, pg, hist >>

\* check_completions, lines 172-185: the dependents of t are decremented in
\* order; one that reaches 0 while Pending becomes Ready.
RECURSIVE UpdateDependents(_, _, _)
UpdateDependents(g, out, k) ==
    IF k > Len(out) THEN g
    ELSE LET dep == out[k]
             remaining == g.deps_remaining[dep] - 1
             g1 == [g EXCEPT !.deps_remaining[dep] = remaining]
             g2 == IF remaining = 0 /\ g1.status[dep] = PTO_TASK_PENDING
                     THEN [g1 EXCEPT !.status[dep] = PTO_TASK_READY]
                     ELSE g1
         IN  UpdateDependents(g2, out, k + 1)

\* check_completions, line 162: the core has completed a task.
TaskDone(h) == h.task # 0 /\ h.task_status = 0

\* check_completions, one core (lines 158-190).
check_completions(p) ==
    /\ IsS /\ p \in Procs
    /\ spc[p] = "check"
    /\ IF th[p].i >= core_num
         THEN /\ spc' = [spc EXCEPT ![p] = "graph_loop"]
              /\ th' = [th EXCEPT ![p].i = 0]
              /\ UNCHANGED << hank, pg, hist >>
         ELSE LET c == th[p].i
              IN  IF TaskDone(hank[c])
                    THEN LET t == PtrTask(hank[c].task)
                             g0 == [pg EXCEPT !.status[t] = PTO_TASK_COMPLETE,
                                              !.tasks_completed = @ + 1]
                         IN  /\ pg' = UpdateDependents(g0, FanoutOf(G, t), 1)
                             /\ hank' = [hank EXCEPT ![c].task = 0]
                             /\ hist' = [hist EXCEPT !.coll[t] = @ + 1,
                                                     !.counted[t] = @ + 1,
                                                     !.ccoll[c] = @ + 1]
                             /\ th' = [th EXCEPT ![p].i = @ + 1]
                             /\ spc' = spc
                    ELSE /\ th' = [th EXCEPT ![p].i = @ + 1]
                         /\ UNCHANGED << spc, hank, pg, hist >>
    /\ UNCHANGED << scen, host, wpc, wtask, mgr, ex, fanin >>

\* shutdown_aicore: control = 1 on every core, then the server returns.
shutdown_aicore(p) ==
    /\ IsS /\ p \in Procs
    /\ spc[p] = "shutdown_aicore"
    /\ IF th[p].i < core_num
         THEN /\ hank' = [hank EXCEPT ![th[p].i].control = 1]
              /\ th' = [th EXCEPT ![p].i = @ + 1]
              /\ spc' = spc
         ELSE /\ hank' = hank
              /\ th' = [th EXCEPT ![p].i = 0]
              /\ spc' = [spc EXCEPT ![p] = "returned"]
    /\ UNCHANGED << scen, host, wpc, wtask, mgr, ex, fanin, pg, hist >>

\* ---------------------------------------------------------- specification
CoreIds == 0 .. (MaxCores - 1)
ProcIds == 1 .. (MAX_AICPU_THREADS + 1)

Worker(c) ==
    \/ aicore_wait_ready(c)
    \/ aicore_ack(c)
    \/ aicore_poll_control(c)
    \/ aicore_poll_task(c)
    \/ aicore_read_task(c)
    \/ aicore_kernel_return(c)
    \/ aicore_mark_complete(c)

SchedulerM(p) ==
    \/ MgrInit(p)
    \/ MgrInit_body(p)
    \/ Run(p)
    \/ HankAiCore_ready(p)
    \/ HankAiCore_wait(p)
    \/ execute_init(p)
    \/ execute_loop(p)
    \/ execute_collect(p)
    \/ execute_fanout(p)
    \/ execute_gate(p)
    \/ execute_dispatch(p)
    \/ execute_publish(p)
    \/ execute_finish(p)
    \/ ShutdownAiCore(p)

SchedulerS(p) ==
    \/ handshake_aicore_ready(p)
    \/ handshake_aicore_wait(p)
    \/ execute_graph_init(p)
    \/ execute_graph_loop(p)
    \/ schedule_tasks(p)
    \/ schedule_mark_busy(p)
    \/ check_completions(p)
    \/ shutdown_aicore(p)

Next ==
    \/ \E c \in CoreIds : Worker(c)
    \/ \E p \in ProcIds : SchedulerM(p)
    \/ \E p \in ProcIds : SchedulerS(p)

Spec == Init /\ [][Next]_vars

\* Every worker core and every scheduler thread is a hardware thread of its
\* own and keeps running.
Fairness ==
    /\ \A c \in CoreIds : WF_vars(Worker(c))
    /\ \A p \in ProcIds : WF_vars(SchedulerM(p) \/ SchedulerS(p))

\* The launches explored under fairness: the 1 AIC : 2 AIV layout of the
\* multi-threaded scheduler and the single scheduler.
FairScenarios ==
    { sc \in Scenarios :
        \/ sc.variant = "S"
        \/ sc.nrAic = sc.scheCpuNum /\ sc.nrAiv = 2 * sc.scheCpuNum }

InitFair == Init /\ scen \in FairScenarios

FairSpec == InitFair /\ [][Next]_vars /\ Fairness

\* ------------------------------------------------------------- properties
\* The server has returned 0 (a thread refused by Init returns -1 and never
\* runs execute).
Returned(p) == spc[p] = "returned" /\ th[p].rc = 0
AllReturned == \A p \in Procs : Returned(p)
LeftLoop(p) ==
    /\ spc[p] \in {"fin", "shutdown", "shutdown_aicore", "returned"}
    /\ th[p].rc = 0
AllLeftLoop == \A p \in Procs : LeftLoop(p)
Executing(u) == \E c \in Cores : wpc[c] = "exec" /\ wtask[c] = TaskPtr(u)
Collected(u) == hist.coll[u] >= 1
Dispatched(v) == hist.disp[v] >= 1
KindOfCore(c) == IF c < scen.nrAic THEN 0 ELSE 1

\* The tasks below the count of a ready queue.
Queued(kind) ==
    { ex[QueueField(kind)][k] : k \in 0 .. (ex[CountField(kind)] - 1) }

\* A task that the scheduler has made ready (queued, or marked Ready or
\* later in the single-scheduler variant) or dispatched.
MadeReady(v) ==
    \/ Dispatched(v)
    \/ IsM /\ ex.init_done_ /\ v \in Queued(0) \cup Queued(1)
    \/ IsS /\ pg.status[v] >= PTO_TASK_READY

C2_KernelOrder ==
    \A v \in Tasks(G) :
        (IsM /\ hist.runs[v] >= 1) =>
            \A u \in Preds(G, v) : hist.runs[u] >= 1 /\ ~Executing(u)

WorkersDone == \A c \in Cores : wpc[c] \in {"wait_ready", "exited"}

\* C4: each task's kernel is invoked exactly once per execute.  No kernel is
\* invoked a second time, and when the workers have exited every task whose
\* completion was recorded has been invoked.
C4_InvokedOnce ==
    \A t \in Tasks(G) :
        /\ hist.runs[t] <= 1
        /\ (WorkersDone /\ AllReturned /\ hist.counted[t] >= 1) => hist.runs[t] >= 1

\* C5: kind affinity.  A cell of a Cube core only ever holds a Cube task and
\* a cell of a Vector core only a Vector task.
C5_KindAffinity ==
    \A c \in Cores :
        hank[c].task # 0 => CoreTypeOf(G, PtrTask(hank[c].task)) = KindOfCore(c)

\* C5 witness: a Vector task sits in the cell of a Vector core.
C5_Witness ==
    \E c \in Cores :
        /\ KindOfCore(c) = 1
        /\ hank[c].task # 0
        /\ CoreTypeOf(G, PtrTask(hank[c].task)) = 1

RECURSIVE SumRet(_)
SumRet(p) == IF p = 0 THEN 0 ELSE th[p].ret + SumRet(p - 1)

CellClosed(h) == h.control = 1 /\ h.task_status = 0 /\ h.task = 0

\* C10: handshake closure.  After every scheduler thread has returned, every
\* cell of the handshake array has control == 1, task_status == 0 and
\* task == 0.
C10_HandshakeClosure ==
    AllReturned => \A c \in Cores : CellClosed(hank[c])

Layout1c2v ==
    IsM /\ scen.nrAic = scen.scheCpuNum /\ scen.nrAiv = 2 * scen.scheCpuNum

C8_Progress ==
    IsS => <>(AllLeftLoop /\ pg.tasks_completed = G.n)

\* C11: worker write set.  A step of a worker changes no cell but its own,
\* and in its own cell only aicore_done (once, from 0, during bring-up) and
\* task_status (to 0); task, control, core_type and aicpu_ready stay.
C11_WorkerWriteSet ==
    [][\A c \in CoreIds :
          Worker(c) =>
              \A d \in Cores :
                  /\ hank'[d].task = hank[d].task
                  /\ hank'[d].control = hank[d].control
                  /\ hank'[d].core_type = hank[d].core_type
                  /\ hank'[d].aicpu_ready = hank[d].aicpu_ready
                  /\ hank'[d].task_status # hank[d].task_status =>
                        d = c /\ hank'[d].task_status = 0
                  /\ hank'[d].aicore_done # hank[d].aicore_done =>
                        d = c /\ wpc[c] = "ack" /\ hank[d].aicore_done = 0]_vars

\* C11 witness: a worker has run a kernel and cleared task_status while the
\* task pointer is still in its cell.
C11_Witness ==
    \E c \in Cores :
        /\ wpc[c] = "top"
        /\ hank[c].task # 0 /\ hank[c].task_status = 0
        /\ hist.runs[PtrTask(hank[c].task)] >= 1

\* C12: cell ownership.  In the multi-threaded scheduler every cell is
\* written by at most one scheduler thread, and a new task pointer is written
\* only into a cell that shows task == 0 and task_status == 0, all of whose
\* earlier dispatches were collected, by the thread that wrote it before.
C12_CellOwnership ==
    /\ [](IsM => \A c \in Cores : Cardinality(hist.wr[c]) <= 1)
    /\ [][IsM =>
            \A c \in Cores :
                (hank'[c].task # 0 /\ hank'[c].task # hank[c].task) =>
                    /\ hank[c].task = 0 /\ hank[c].task_status = 0
                    /\ hist.cdisp[c] = hist.ccoll[c]
                    /\ hist'.wr[c] = hist.wr[c]]_vars

\* Thread t's share of the assignment table: its first cores_per_thread_
\* entries.
AssignedTo(t) ==
    { mgr.core_assignments_[t][k] : k \in 0 .. (mgr.cores_per_thread_ - 1) }

\* C13: core assignment.  After a successful Init the shares of the threads
\* are pairwise disjoint, lie in [0, core_num) and cover every core.
C13_CoreAssignment ==
    (IsM /\ mgr.init_done_) =>
        /\ \A t1, t2 \in 0 .. (mgr.thread_num_ - 1) :
              t1 # t2 => AssignedTo(t1) \cap AssignedTo(t2) = {}
        /\ \A t \in 0 .. (mgr.thread_num_ - 1) : AssignedTo(t) \subseteq Cores
        /\ UNION { AssignedTo(t) : t \in 0 .. (mgr.thread_num_ - 1) } = Cores

\* C14: schedule_tasks assigns only to an idle cell.  A step of the single
\* scheduler that writes a task pointer finds task == 0 and task_status == 0
\* in that cell.
C14_AssignOnlyIdle ==
    [][IsS =>
         \A c \in Cores :
             (hank'[c].task # 0 /\ hank'[c].task # hank[c].task) =>
                 hank[c].task = 0 /\ hank[c].task_status = 0]_vars

\* The cells a scheduler thread brings up and serves: its share of the
\* assignment table, or every cell for the single scheduler.
OwnedCells(p) == IF IsM THEN AssignedTo(th[p].thread_idx) ELSE Cores

HasDispatched(p) == \E t \in Tasks(G) : p \in hist.dispBy[t]

\* C15: bring-up ordering.  A worker is about to write or has written
\* aicore_done only with aicpu_ready != 0 in its cell, the value written is
\* core index + 1, and a scheduler thread that has dispatched a task has
\* aicore_done != 0 on every cell it owns.
C15_BringUpOrdering ==
    /\ \A c \in Cores :
          /\ hank[c].aicore_done \in {0, c + 1}
          /\ (wpc[c] = "ack" \/ hank[c].aicore_done # 0) => hank[c].aicpu_ready # 0
    /\ \A p \in Procs :
          HasDispatched(p) => \A c \in OwnedCells(p) : hank[c].aicore_done # 0

\* C15 witness: a thread of the multi-threaded scheduler has dispatched a
\* task to a cell other than cell 0 after the acknowledgement of its cells.
C15_Witness ==
    /\ IsM
    /\ \E p \in Procs : HasDispatched(p)
    /\ \E c \in Cores : c >= 1 /\ hank[c].task # 0 /\ hank[c].aicore_done = c + 1

AllCounted == \A t \in Tasks(G) : hist.counted[t] >= 1

PastMgrBarrier(p) ==
    /\ spc[p] \notin {"server", "mgr_init", "init_wait"}
    /\ th[p].rc = 0

\* The thread has passed the initialisation section of execute.
PastExecBarrier(p) ==
    spc[p] \in {"loop", "p1", "fan", "push", "gate", "p2", "publish"}

\* C17: initialization barrier.  In one execute the manager's Init body runs
\* at most once and thread 0's initialisation of execute runs at most once; a
\* thread leaves the server's wait for Run only with the manager's init_done_
\* set and a thread other than thread 0 enters its loop only with the
\* executor's init_done_ set; so every thread in Run sees the configuration
\* and the assignment table that Init wrote, and every thread in its loop
\* has read the graph's task count from total_tasks_.
C17_InitBarrier ==
    /\ [](IsM => /\ hist.mgrInit <= 1
                 /\ hist.exInit <= 1
                 /\ \A p \in Procs :
                       /\ PastMgrBarrier(p) =>
                             /\ hist.mgrInit = 1
                             /\ mgr.cores_per_thread_ = core_num \div scen.scheCpuNum
                             /\ mgr.core_assignments_ =
                                   CoreAssignments(scen.scheCpuNum, scen.nrAic)
                             /\ th[p].thread_idx \in 0 .. (scen.scheCpuNum - 1)
                       /\ PastExecBarrier(p) =>
                             hist.exInit = 1 /\ th[p].task_count = G.n)
    /\ [][IsM =>
            \A p \in Procs :
                /\ (spc[p] = "init_wait" /\ spc'[p] = "hank_ready") => mgr.init_done_
                /\ (spc[p] = "exec_init" /\ spc'[p] = "loop" /\ th[p].thread_idx # 0)
                      => ex.init_done_]_vars

\* C17 witness: with two threads, the thread with index 1 is in its loop
\* after thread 0's initialisation.
C17_Witness ==
    /\ IsM /\ scen.scheCpuNum = 2
    /\ \E p \in Procs : th[p].thread_idx = 1 /\ PastExecBarrier(p)

\* The thread has made its increment of finished_count_.
PastExitBarrier(p) == spc[p] \in {"shutdown", "returned"} /\ th[p].rc = 0

\* C18: exit barrier.  Until the reset, finished_count_ counts the threads
\* that have left execute; the reset of the shared state is made at most
\* once, by the thread whose increment makes the count equal to the thread
\* count, in a step in which every other thread has already made its
\* increment (none is in its loop or waiting on init_done_); after it the
\* two ready counts, completed_tasks_, total_tasks_ and finished_count_ are
\* zero and init_done_ is false, and when all threads have returned the
\* reset has been made and the last thread has cleared the manager's flags
\* and counters.
C18_ExitBarrier ==
    /\ [](IsM =>
            /\ hist.resets <= 1
            /\ hist.resets = 0 =>
                  ex.finished_count_ =
                      Cardinality({ p \in Procs : PastExitBarrier(p) })
            /\ hist.resets = 1 =>
                  /\ \A p \in Procs : PastExitBarrier(p)
                  /\ ex.ready_count_aic_ = 0 /\ ex.ready_count_aiv_ = 0
                  /\ ex.completed_tasks_ = 0 /\ ex.total_tasks_ = 0
                  /\ ex.finished_count_ = 0 /\ ~ex.init_done_
            /\ AllReturned =>
                  /\ hist.resets = 1
                  /\ ~mgr.initialized_ /\ ~mgr.init_done_
                  /\ mgr.finished_ = 0 /\ mgr.thread_idx_ = 0)
    /\ [][IsM =>
            \A p \in Procs :
                (spc[p] = "fin" /\ spc'[p] = "shutdown") =>
                    IF ex.finished_count_ + 1 = scen.scheCpuNum
                      THEN /\ hist'.resets = hist.resets + 1
                           /\ \A q \in Procs \ {p} : PastExitBarrier(q)
                      ELSE /\ hist'.resets = hist.resets
                           /\ ex'.finished_count_ = ex.finished_count_ + 1]_vars

\* C18 witness: two threads have returned and one of them made the reset.
C18_Witness ==
    /\ IsM /\ scen.scheCpuNum = 2 /\ AllReturned
    /\ hist.resets = 1

\* A launch whose configuration Init must refuse.
InvalidConfig ==
    /\ IsM
    /\ \/ scen.scheCpuNum > MAX_AICPU_THREADS
       \/ core_num \div scen.scheCpuNum > MAX_CORES_PER_THREAD

\* C19: invalid configuration.  With more than MAX_AICPU_THREADS threads or
\* more than MAX_CORES_PER_THREAD cores per thread, no thread gets past the
\* server's wait, a thread that has returned has returned -1 with
\* init_failed_ set and init_done_ clear, every handshake cell is as the host
\* reset it, and no task has been dispatched.
C19_InvalidConfig ==
    InvalidConfig =>
        /\ \A p \in Procs :
              /\ spc[p] \in {"server", "mgr_init", "init_wait", "returned"}
              /\ spc[p] = "returned" =>
                    /\ th[p].rc = -1
                    /\ mgr.init_failed_ /\ ~mgr.init_done_
        /\ \A c \in Cores : hank[c] = ResetCell(c, scen.nrAic)
        /\ \A t \in Tasks(G) : hist.disp[t] = 0 /\ hist.runs[t] = 0
        /\ ~ex.init_done_

\* C19 witness: a launch with five scheduler threads in which every thread
\* has returned -1.
C19_Witness ==
    /\ InvalidConfig /\ scen.scheCpuNum = MAX_AICPU_THREADS + 1
    /\ \A p \in Procs : spc[p] = "returned" /\ th[p].rc = -1

\* ------------------------------------------------------ repeated executes
\* The completions that an execute reports: the sum of the threads' return
\* values of execute, or the return value of execute_graph.
Completions == IF IsM THEN SumRet(scen.scheCpuNum) ELSE th[1].ret

\* The host starts the next execute of the same graph after both streams of
\* the previous one have ended (every scheduler thread returned 0, every
\* worker exited): it resets every handshake cell and stages the array and
\* the graph again.  The statics of the scheduler library (g_mt_mgr and the
\* statics of graphexecutor.cpp) stay as the previous execute left them.
Relaunch ==
    /\ host.execs < MaxExecs
    /\ AllReturned
    /\ \A c \in Cores : wpc[c] = "exited"
    /\ host' = [execs |-> host.execs + 1, prev |-> Completions, start |-> ex]
    /\ hank' = [c \in Cores |-> ResetCell(c, scen.nrAic)]
    /\ wpc' = [c \in Cores |-> "wait_ready"]
    /\ wtask' = [c \in Cores |-> 0]
    /\ spc' = [p \in Procs |-> IF IsM THEN "server" ELSE "handshake_ready"]
    /\ th' = [p \in Procs |-> ThreadInit]
    /\ fanin' = [t \in Tasks(G) |-> InDegree(G, t)]
    /\ pg' = [status |-> [t \in Tasks(G) |-> PTO_TASK_PENDING],
              deps_remaining |-> [t \in Tasks(G) |-> InDegree(G, t)],
              tasks_completed |-> 0]
    /\ hist' = HistInitial(scen)
    /\ UNCHANGED << scen, mgr, ex >>

NextRe == Next \/ Relaunch

ReSpec == Init /\ [][NextRe]_vars

InLoopBody(p) ==
    spc[p] \in {"p1", "fan", "push", "gate", "p2", "publish",
                "graph_loop", "schedule", "mark_busy", "check"}

\* C21: empty graph.  For a graph with zero tasks no cell ever carries a
\* task or task_status 1, no scheduler thread is ever inside its loop, the
\* completed counters stay 0, and when the threads have returned they report
\* 0 completions and every owned cell has been brought up (aicpu_ready set,
\* aicore_done answered) and has received control == 1.
C21_EmptyGraph ==
    G.n = 0 =>
        /\ \A c \in Cores : hank[c].task = 0 /\ hank[c].task_status = 0
        /\ \A p \in Procs : ~InLoopBody(p)
        /\ ex.completed_tasks_ = 0 /\ pg.tasks_completed = 0
        /\ AllReturned =>
              /\ Completions = 0
              /\ \A p \in Procs : \A c \in OwnedCells(p) :
                    /\ hank[c].aicpu_ready = 1
                    /\ hank[c].aicore_done = c + 1
                    /\ hank[c].control = 1

\* C21 witness: the multi-threaded scheduler has returned from an empty
\* graph.
C21_Witness == G.n = 0 /\ IsM /\ AllReturned

\* ------------------------------------------------ host: a2a3_runtime.c
\* Return codes of the host API.
A2A3_SUCCESS == 0
A2A3_ERROR_INVALID_CONFIG == -1
A2A3_ERROR_SO_LOAD_FAILED == -2
A2A3_ERROR_MEMORY_ALLOC == -4
A2A3_ERROR_NOT_INITIALIZED == -6
A2A3_ERROR_ALREADY_INIT == -7
A2A3_ERROR_DEVICE_LAUNCH == -9
A2A3_DEFAULT_DEP_THREADS == 3

\* The configurations handed to a2a3_runtime_init: core counts, the
\* configured scheduler threads, and whether the paths are given.
HostConfigs ==
    [num_aic_workers : {1, 2}, num_aiv_workers : {1, 3},
     num_dep_threads : {1, A2A3_DEFAULT_DEP_THREADS},
     aicpu_kernel_path : BOOLEAN, aicore_kernel_path : BOOLEAN]

NoConfig == [num_aic_workers |-> 0, num_aiv_workers |-> 0, num_dep_threads |-> 0,
             aicpu_kernel_path |-> FALSE, aicore_kernel_path |-> FALSE]

NoLaunches == [server_init |-> 0, server |-> 0, aicore |-> 0]

\* The kernel registry: g_kernel_func_table with every entry NULL.
A2A3_MAX_KERNELS == 256
NoKernels == [i \in 0 .. (A2A3_MAX_KERNELS - 1) |-> 0]

\* The globals of a2a3_runtime.c before the first call: cann tells the
\* build (CANN_SDK_AVAILABLE or stub); held are the resources whose handle
\* in the globals is acquired and not released; hs is g_host_handshake;
\* ran tells that the kernels of an execute have written the device cells
\* since they were allocated; launches the kernel launches of the last
\* execute; last the last call and its return code.
RuntimeInitial(b) ==
    [cann |-> b, g_initialized |-> FALSE, g_config |-> NoConfig,
     g_total_cores |-> 0, held |-> {}, hs |-> << >>, ran |-> FALSE,
     pc |-> "idle", launches |-> NoLaunches,
     last |-> [call |-> "none", rc |-> A2A3_SUCCESS],
     g_kernel_func_table |-> NoKernels, loaded |-> NoKernels,
     got |-> [func_id |-> -1, addr |-> 0]]

\* The steps of a2a3_runtime_init in program order.
InitSteps ==
    << "aclInit", "aclrtSetDevice", "stream_aicpu", "stream_aicore",
       "so_loader", "incore", "host_handshake", "device_handshake",
       "memcpy_handshake", "aicpu_so", "runtime_args", "memcpy_runtime_args",
       "device_args", "memcpy_device_args", "aicore_kernel",
       "kernel_func_table" >>

StepIndex(s) == CHOOSE k \in 1 .. Len(InitSteps) : InitSteps[k] = s

\* A step is compiled in and asked for by the configuration.
StepApplies(s, cfg, cann) ==
    /\ s \notin {"so_loader", "incore", "host_handshake"} => cann
    /\ s = "aicpu_so" => cfg.aicpu_kernel_path
    /\ s = "aicore_kernel" => cfg.aicore_kernel_path

\* The steps whose failure makes a2a3_runtime_init return an error.
FailingSteps ==
    {"aclInit", "aclrtSetDevice", "stream_aicpu", "stream_aicore",
     "host_handshake", "device_handshake", "memcpy_handshake", "aicpu_so",
     "runtime_args", "memcpy_runtime_args", "device_args",
     "memcpy_device_args"}

\* The steps whose failure is only a warning.
WarningSteps == {"aicore_kernel"}

\* The resource a successful step leaves behind (a copy leaves none).
IsResource(s) ==
    s \notin {"memcpy_handshake", "memcpy_runtime_args", "memcpy_device_args"}

\* What the error path of a failing step releases before returning.
ReleasedAt(s) ==
    CASE s = "stream_aicore" -> {"stream_aicpu"}
      [] s = "device_handshake" -> {"host_handshake"}
      [] s = "memcpy_handshake" -> {"device_handshake", "host_handshake"}
      [] s = "aicpu_so" -> {"device_handshake", "host_handshake"}
      [] s = "runtime_args" -> {"device_handshake", "host_handshake"}
      [] s = "memcpy_runtime_args" ->
            {"runtime_args", "device_handshake", "host_handshake"}
      [] s = "device_args" ->
            {"runtime_args", "device_handshake", "host_handshake"}
      [] s = "memcpy_device_args" ->
            {"device_args", "runtime_args", "device_handshake",
             "host_handshake"}
      [] OTHER -> {}

ErrorAt(s) ==
    CASE s \in {"host_handshake", "device_handshake", "runtime_args",
                "device_args"} -> A2A3_ERROR_MEMORY_ALLOC
      [] s = "aicpu_so" -> A2A3_ERROR_SO_LOAD_FAILED
      [] OTHER -> A2A3_ERROR_DEVICE_LAUNCH

\* The resources acquired by the steps before position k, and by all steps.
AcquiredBefore(k, cfg, cann, warn) ==
    { InitSteps[j] : j \in { i \in 1 .. (k - 1) :
          /\ IsResource(InitSteps[i])
          /\ StepApplies(InitSteps[i], cfg, cann)
          /\ InitSteps[i] \notin warn } }

HostCells(cfg) ==
    [i \in 0 .. (cfg.num_aic_workers + cfg.num_aiv_workers - 1) |->
        ResetCell(i, cfg.num_aic_workers)]

AlreadyInit_Never(h) == FALSE
AlreadyInit(h) == h.g_initialized

NotInitialized(h) == ~h.g_initialized

\* a2a3_runtime_init(config), with the step that fails (or "none") and the
\* steps that only warn; a call that is refused runs no step.
a2a3_runtime_init(cfg, fail, warn) ==
    /\ host.pc = "idle"
    /\ UNCHANGED << scen, wpc, wtask, spc, th, mgr, ex, fanin, pg, hist >>
    /\ IF AlreadyInit(host)
       THEN /\ fail = "none" /\ warn = {}
            /\ host' = [host EXCEPT !.last =
                           [call |-> "init", rc |-> A2A3_ERROR_ALREADY_INIT]]
            /\ hank' = hank
       ELSE IF cfg = NoConfig
       THEN /\ fail = "none" /\ warn = {}
            /\ host' = [host EXCEPT !.last =
                           [call |-> "init", rc |-> A2A3_ERROR_INVALID_CONFIG]]
            /\ hank' = hank
       ELSE IF fail = "none"
       THEN /\ warn \subseteq { w \in WarningSteps : StepApplies(w, cfg, host.cann) }
            /\ LET got == AcquiredBefore(Len(InitSteps) + 1, cfg, host.cann, warn)
               IN  /\ host' = [host EXCEPT
                         !.g_initialized = TRUE,
                         !.g_config = cfg,
                         !.g_total_cores = cfg.num_aic_workers + cfg.num_aiv_workers,
                         !.held = host.held \cup got,
                         !.hs = HostCells(cfg),
                         !.ran = FALSE,
                         !.last = [call |-> "init", rc |-> A2A3_SUCCESS]]
                   /\ hank' = IF host.cann THEN HostCells(cfg) ELSE hank
       ELSE /\ StepApplies(fail, cfg, host.cann)
            /\ warn = {}
            /\ LET got == AcquiredBefore(StepIndex(fail), cfg, host.cann, {})
               IN  /\ host' = [host EXCEPT
                         !.g_config = cfg,
                         !.g_total_cores = cfg.num_aic_workers + cfg.num_aiv_workers,
                         !.held = (host.held \cup got) \ ReleasedAt(fail),
                         !.hs = << >>,
                         !.ran = FALSE,
                         !.last = [call |-> "init", rc |-> ErrorAt(fail)]]
                   /\ hank' = << >>

\* What a finished run can leave in device cell i: untouched (k = 0),
\* brought up and told to quit (k = 1), or told to quit with a task still
\* written in it (k = 2).
LeftBehindCell(i, nAic, k) ==
    CASE k = 0 -> ResetCell(i, nAic)
      [] k = 1 -> [ResetCell(i, nAic) EXCEPT !.aicpu_ready = 1,
                      !.aicore_done = i + 1, !.control = 1]
      [] OTHER -> [ResetCell(i, nAic) EXCEPT !.aicpu_ready = 1,
                      !.aicore_done = i + 1, !.control = 1, !.task = 1,
                      !.task_status = 1]

LeftBehind(h) ==
    { [i \in 0 .. (h.g_total_cores - 1) |->
          LeftBehindCell(i, h.g_config.num_aic_workers, k)] : k \in 0 .. 2 }

\* a2a3_runtime_execute, entry and steps 1 and 2: the initialised check, the
\* reset of the host cells, their copy to the device and the copy of
\* DeviceArgs.  fail names the copy that fails, or "none".
a2a3_runtime_execute(fail) ==
    /\ host.pc = "idle"
    /\ UNCHANGED << scen, wpc, wtask, spc, th, mgr, ex, fanin, pg, hist >>
    /\ IF NotInitialized(host)
       THEN /\ host' = [host EXCEPT !.last =
                          [call |-> "execute", rc |-> A2A3_ERROR_NOT_INITIALIZED]]
            /\ hank' = hank
       ELSE IF ~host.cann
       THEN /\ host' = [host EXCEPT !.launches = NoLaunches,
                          !.last = [call |-> "execute", rc |-> A2A3_SUCCESS]]
            /\ hank' = hank
       ELSE LET cells == [i \in 0 .. (host.g_total_cores - 1) |->
                            ResetCell(i, host.g_config.num_aic_workers)]
            IN  /\ hank' = IF fail = "memcpy_handshake" THEN hank ELSE cells
                /\ host' = [host EXCEPT
                      !.hs = cells,
                      !.launches = NoLaunches,
                      !.pc = IF fail = "none" THEN "launch" ELSE "idle",
                      !.last = [call |-> "execute",
                                rc |-> IF fail = "none" THEN A2A3_SUCCESS
                                       ELSE A2A3_ERROR_DEVICE_LAUNCH]]

\* launch_aicore_kernel: the block count handed to the launch.
BlockDim(cfg) == IF cfg.num_aic_workers > 0 THEN cfg.num_aic_workers ELSE 1

\* The instance count of the AICPU main kernel.
ServerInstances(cfg) == 1

\* a2a3_runtime_execute steps 3 to 5: launch the AICPU init kernel, the
\* AICPU main kernel and, when the kernel binary was loaded, the AICore
\* kernel.  fail names the launch that fails, or "none".
execute_launch(fail) ==
    /\ host.pc = "launch"
    /\ fail \in {"aicore_register", "aicore_launch"} =>
          "aicore_kernel" \in host.held
    /\ UNCHANGED << scen, wpc, wtask, spc, th, mgr, ex, fanin, pg, hist >>
    /\ LET cfg == host.g_config
           l1 == [NoLaunches EXCEPT !.server_init = 1]
           l2 == [l1 EXCEPT !.server = ServerInstances(cfg)]
           l3 == IF "aicore_kernel" \in host.held
                 THEN [l2 EXCEPT !.aicore = BlockDim(cfg)] ELSE l2
       IN  /\ IF fail \in {"aicore_register", "aicore_launch"}
              THEN hank' \in LeftBehind(host)
              ELSE hank' = hank
           /\ host' = [host EXCEPT
                 !.launches = CASE fail = "server_init" -> NoLaunches
                                [] fail = "server" -> l1
                                [] fail \in {"aicore_register", "aicore_launch"} -> l2
                                [] OTHER -> l3,
                 !.pc = IF fail = "none" THEN "sync" ELSE "idle",
                 !.ran = (host.ran \/ hank' # hank),
                 !.last = [call |-> "execute",
                           rc |-> IF fail = "none" THEN A2A3_SUCCESS
                                  ELSE A2A3_ERROR_DEVICE_LAUNCH]]

\* a2a3_runtime_execute step 6: wait for both streams; the kernels have run
\* and left their values in the device cells.
execute_sync(fail) ==
    /\ host.pc = "sync"
    /\ UNCHANGED << scen, wpc, wtask, spc, th, mgr, ex, fanin, pg, hist >>
    /\ hank' \in LeftBehind(host)
    /\ host' = [host EXCEPT
          !.pc = "idle",
          !.ran = (host.ran \/ hank' # hank),
          !.last = [call |-> "execute",
                    rc |-> IF fail = "none" THEN A2A3_SUCCESS
                           ELSE A2A3_ERROR_DEVICE_LAUNCH]]

\* A finalize that leaves the kernel registry as it is.
ClearTable_Keep(table) == table

\* a2a3_runtime_finalize, lines 797-804: every entry of the kernel registry
\* is freed and set to NULL.
ClearTable(table) == [i \in DOMAIN table |-> 0]

\* a2a3_runtime_finalize.  The field loaded remembers, per func_id, the
\* address of the most recent successful load since the last finalize.
a2a3_runtime_finalize ==
    /\ host.pc = "idle"
    /\ UNCHANGED << scen, wpc, wtask, spc, th, mgr, ex, fanin, pg, hist >>
    /\ IF NotInitialized(host)
       THEN /\ host' = [host EXCEPT !.last = [call |-> "finalize", rc |-> A2A3_SUCCESS]]
            /\ hank' = hank
       ELSE /\ host' = [host EXCEPT
                  !.g_initialized = FALSE, !.held = {}, !.hs = << >>,
                  !.ran = FALSE,
                  !.g_kernel_func_table = IF host.cann THEN ClearTable(@) ELSE @,
                  !.loaded = NoKernels,
                  !.last = [call |-> "finalize", rc |-> A2A3_SUCCESS]]
            /\ hank' = << >>

\* The launch the device variables are parked at while the host is observed.
HostLaunch == CHOOSE s \in Scenarios : s.variant = "S" /\ s.graph = Empty

HostInit ==
    /\ scen = HostLaunch
    /\ hank = << >>
    /\ wpc = [c \in 0 .. (scen.nrAic + scen.nrAiv - 1) |-> "wait_ready"]
    /\ wtask = [c \in 0 .. (scen.nrAic + scen.nrAiv - 1) |-> 0]
    /\ spc = [p \in 1 .. scen.scheCpuNum |-> "handshake_ready"]
    /\ th = [p \in 1 .. scen.scheCpuNum |-> ThreadInit]
    /\ mgr = MgrInitial
    /\ ex = ExInitial
    /\ fanin = [t \in Tasks(scen.graph) |-> InDegree(scen.graph, t)]
    /\ pg = [status |-> [t \in Tasks(scen.graph) |-> PTO_TASK_PENDING],
             deps_remaining |-> [t \in Tasks(scen.graph) |-> InDegree(scen.graph, t)],
             tasks_completed |-> 0]
    /\ hist = HistInitial(scen)
    /\ host \in { RuntimeInitial(b) : b \in BOOLEAN }

HostNext ==
    \/ \E cfg \in HostConfigs \cup {NoConfig} :
       \E fail \in FailingSteps \cup {"none"} :
       \E warn \in SUBSET WarningSteps : a2a3_runtime_init(cfg, fail, warn)
    \/ \E fail \in {"none", "memcpy_handshake", "memcpy_device_args"} :
          a2a3_runtime_execute(fail)
    \/ \E fail \in {"none", "server_init", "server", "aicore_register",
                    "aicore_launch"} : execute_launch(fail)
    \/ \E fail \in {"none", "sync_aicpu", "sync_aicore"} : execute_sync(fail)
    \/ a2a3_runtime_finalize

HostSpec == HostInit /\ [][HostNext]_vars

\* A step that enters the host API call named c (the host is between calls
\* and the call is the one recorded).
HostCall(c) == host.pc = "idle" /\ host'.last.call = c

\* The call changed nothing but the record of its return code.
OnlyReturned(rc) ==
    /\ host' = [host EXCEPT !.last = host'.last]
    /\ host'.last.rc = rc
    /\ hank' = hank

\* Some a2a3_runtime_init call succeeds from the current state.
InitCanSucceed ==
    ENABLED (\E cfg \in HostConfigs :
                a2a3_runtime_init(cfg, "none", {}) /\ host'.g_initialized)

\* C22: host lifecycle.  After any sequence of calls: init on an initialised
\* runtime returns A2A3_ERROR_ALREADY_INIT and changes nothing; execute on a
\* runtime that is not initialised returns A2A3_ERROR_NOT_INITIALIZED and
\* launches nothing; finalize on a runtime that is not initialised changes
\* nothing; finalize leaves the runtime not initialised, and a runtime that
\* is not initialised can be initialised.
C22_HostLifecycle ==
    /\ [](~host.g_initialized /\ host.pc = "idle" => InitCanSucceed)
    /\ [][ /\ HostCall("init") /\ host.g_initialized =>
                OnlyReturned(A2A3_ERROR_ALREADY_INIT)
           /\ HostCall("execute") /\ ~host.g_initialized =>
                OnlyReturned(A2A3_ERROR_NOT_INITIALIZED)
           /\ HostCall("finalize") /\ ~host.g_initialized =>
                OnlyReturned(A2A3_SUCCESS)
           /\ HostCall("finalize") => ~host'.g_initialized ]_vars

\* C22 witness: an init call was refused on an initialised runtime that an
\* earlier execute had launched kernels on.
C22_Witness ==
    /\ host.g_initialized
    /\ host.last = [call |-> "init", rc |-> A2A3_ERROR_ALREADY_INIT]
    /\ host.launches.server > 0

\* The resources a2a3_runtime_init acquires itself: both streams, the host
\* handshake buffer, the device allocations and the binaries it loads (the
\* InCore binaries are kept by the binary loader).
InitResources ==
    {"stream_aicpu", "stream_aicore", "host_handshake", "device_handshake",
     "aicpu_so", "runtime_args", "device_args", "aicore_kernel"}

\* The a2a3_runtime_init call of this step returned an error after running
\* its steps (it was not refused at entry).
InitFailed ==
    /\ HostCall("init")
    /\ host'.last.rc \notin {A2A3_SUCCESS, A2A3_ERROR_ALREADY_INIT,
                             A2A3_ERROR_INVALID_CONFIG}

\* C23: failed init releases what it acquired.  Whenever a2a3_runtime_init
\* returns an error, no stream, device allocation, host handshake buffer or
\* loaded binary is held that was not held before the call, and the runtime
\* is not initialised.
C23_FailedInitReleases ==
    [][ InitFailed =>
          /\ ~host'.g_initialized
          /\ (host'.held \cap InitResources) \subseteq host.held ]_vars

\* The vector sub-blocks that come with one block of a launch (1 AIC with
\* 2 AIV).
SubBlockDim == 2

\* aicore_kernel: the cells indexed by the workers of a launch of blockDim
\* blocks.  A cube worker takes its block index; a vector worker takes
\* block * subblockdim + subblock + block count.
WorkerCells(blockDim) ==
    (0 .. (blockDim - 1)) \cup
    { b * SubBlockDim + s + blockDim :
         b \in 0 .. (blockDim - 1), s \in 0 .. (SubBlockDim - 1) }

\* C24: launch counts.  When an execute has made its launches, the AICPU
\* main kernel was launched with as many instances as the configured
\* scheduler threads, the AICore kernel with as many blocks as there are
\* worker cores, and every handshake cell has a worker.
C24_LaunchCounts ==
    host.pc = "sync" =>
        /\ host.launches.server = host.g_config.num_dep_threads
        /\ host.launches.aicore = host.g_total_cores
        /\ \A i \in 0 .. (host.g_total_cores - 1) :
              i \in WorkerCells(host.launches.aicore)

\* C25: cells are reset each call.  When an execute has passed its reset
\* and has launched no kernel yet, the device holds one cell per core, and
\* every cell has aicpu_ready, aicore_done, control, task and task_status
\* equal to 0 and core_type 0 below num_aic_workers and 1 from there on,
\* whatever the kernels of an earlier execute left in the cells.
C25_CellsReset ==
    host.pc = "launch" =>
        /\ DOMAIN hank = 0 .. (host.g_total_cores - 1)
        /\ \A i \in DOMAIN hank :
              /\ hank[i].aicpu_ready = 0
              /\ hank[i].aicore_done = 0
              /\ hank[i].control = 0
              /\ hank[i].task = 0
              /\ hank[i].task_status = 0
              /\ hank[i].core_type =
                    IF i < host.g_config.num_aic_workers THEN 0 ELSE 1

\* C25 witness: an execute is between its reset and its launches, and the
\* kernels of an earlier execute on the same cells had written them.
C25_Witness == host.pc = "launch" /\ host.ran

\* ------------------------------------------------------- cell layout
\* The members of the host-side Handshake and of the device-side
\* PTOHandshake in declaration order, with their sizes in bytes, and the
\* alignment attribute of each struct (1 when there is none).
Handshake ==
    << [name |-> "aicpu_ready", size |-> 4], [name |-> "aicore_done", size |-> 4],
       [name |-> "task", size |-> 8], [name |-> "task_status", size |-> 4],
       [name |-> "control", size |-> 4], [name |-> "core_type", size |-> 4],
       [name |-> "profile_enable", size |-> 4], [name |-> "reserved", size |-> 4] >>

HandshakeAligned == 64

PTOHandshake ==
    << [name |-> "aicpu_ready", size |-> 4], [name |-> "aicore_done", size |-> 4],
       [name |-> "control", size |-> 4], [name |-> "task", size |-> 8],
       [name |-> "task_status", size |-> 4], [name |-> "core_type", size |-> 4],
       [name |-> "padding[0]", size |-> 4], [name |-> "padding[1]", size |-> 4] >>

PTOHandshakeAligned == 1

CellFields ==
    {"aicpu_ready", "aicore_done", "task", "task_status", "control", "core_type"}

\* Struct layout as the compiler computes it: every member at the next
\* multiple of its size, the struct size rounded up to the struct alignment.
AlignUp(x, a) == ((x + a - 1) \div a) * a

RECURSIVE EndOf(_, _)
EndOf(fs, k) ==
    IF k = 0 THEN 0 ELSE AlignUp(EndOf(fs, k - 1), fs[k].size) + fs[k].size

OffsetOf(fs, f) ==
    LET k == CHOOSE j \in 1 .. Len(fs) : fs[j].name = f
    IN  AlignUp(EndOf(fs, k - 1), fs[k].size)

StructAlign(fs, attr) ==
    CHOOSE a \in {attr} \cup { fs[k].size : k \in 1 .. Len(fs) } :
        \A b \in {attr} \cup { fs[k].size : k \in 1 .. Len(fs) } : a >= b

SizeOf(fs, attr) == AlignUp(EndOf(fs, Len(fs)), StructAlign(fs, attr))

\* The byte address, from the start of the handshake buffer, of member f of
\* cell i as the host and as the device compute it.
HostAddr(i, f) == i * SizeOf(Handshake, HandshakeAligned) + OffsetOf(Handshake, f)
DeviceAddr(i, f) == i * SizeOf(PTOHandshake, PTOHandshakeAligned) + OffsetOf(PTOHandshake, f)

\* C26: cell layout agreement.  For the buffer the host has allocated, both
\* sides use the same stride, a multiple of 64 bytes, and compute the same
\* byte address for aicpu_ready, aicore_done, task, task_status, control and
\* core_type of every cell.
C26_LayoutAgreement ==
    host.g_initialized =>
        /\ SizeOf(Handshake, HandshakeAligned) = SizeOf(PTOHandshake, PTOHandshakeAligned)
        /\ SizeOf(Handshake, HandshakeAligned) % 64 = 0
        /\ SizeOf(PTOHandshake, PTOHandshakeAligned) % 64 = 0
        /\ \A i \in 0 .. (host.g_total_cores - 1) : \A f \in CellFields :
              HostAddr(i, f) = DeviceAddr(i, f)

\* ---------------------------------------------- scheduler invariants
\* The tasks of a core kind that have been written into a cell and not yet
\* collected, and the cores of a kind.
InFlight(kind) ==
    { t \in Tasks(G) : G.core_type[t + 1] = kind /\ hist.disp[t] > hist.coll[t] }

CoresOfKind(kind) == { c \in Cores : KindOfCore(c) = kind }

C28_WorkerDoorbell ==
    [][ \A c \in Cores :
          (wpc[c] = "chk" /\ wpc'[c] = "rd") =>
              hank[c].task # 0 /\ hank[c].task_status = 1 ]_vars

\* No scheduler thread is between recognising a completion and the end of
\* its fan-out loop.
NoneMidCompletion == \A p \in Procs : spc[p] \notin {"fan", "push"}

\* The edges into v whose source has not been collected.
OpenEdges(v) == Cardinality({ u \in Preds(G, v) : hist.coll[u] = 0 })

\* The fan-in counter of v: Task::fanin, or deps_remaining in the single
\* scheduler.
FanInOf(v) == IF IsM THEN fanin[v] ELSE pg.deps_remaining[v]

QueueWellFormed(kind) ==
    /\ ex[CountField(kind)] \in 0 .. MaxTasks
    /\ Cardinality(Queued(kind)) = ex[CountField(kind)]
    /\ \A t \in Queued(kind) :
          /\ t \in Tasks(G)
          /\ (IF CoreTypeOf(G, t) = 0 THEN 0 ELSE 1) = kind
          /\ fanin[t] = 0
          /\ hist.disp[t] = 0

\* A step that pushes on the queue: the mutex is free for the pushing
\* thread, the new entry goes on top and the entries below stay.
PushStep(kind) ==
    ex'[CountField(kind)] = ex[CountField(kind)] + 1 =>
        /\ ex[MutexField(kind)] = 0
        /\ \A k \in 0 .. (ex[CountField(kind)] - 1) :
              ex'[QueueField(kind)][k] = ex[QueueField(kind)][k]
        /\ ex'[QueueField(kind)][ex[CountField(kind)]] \notin
              Queued(0) \cup Queued(1)

\* A step that pops from the queue: the popping thread takes the mutex, and
\* the entry written into a cell is the most recently pushed one.
PopStep(kind) ==
    ex'[CountField(kind)] = ex[CountField(kind)] - 1 =>
        /\ ex[MutexField(kind)] = 0
        /\ ex'[MutexField(kind)] \in Procs
        /\ \E c \in Cores :
              /\ hank[c].task = 0
              /\ hank'[c].task = TaskPtr(QueueTop(ex, kind))

Reenter ==
    /\ IsS
    /\ host.execs < MaxExecs
    /\ AllReturned
    /\ \A c \in Cores : wpc[c] = "exited"
    /\ host' = [execs |-> host.execs + 1, prev |-> Completions, start |-> ex]
    /\ hank' = [c \in Cores |-> ResetCell(c, scen.nrAic)]
    /\ wpc' = [c \in Cores |-> "wait_ready"]
    /\ wtask' = [c \in Cores |-> 0]
    /\ spc' = [p \in Procs |-> "handshake_ready"]
    /\ th' = [p \in Procs |-> ThreadInit]
    /\ hist' = HistInitial(scen)
    /\ UNCHANGED << scen, mgr, ex, fanin, pg >>

\* The launches of the single scheduler.
InitSame == Init /\ scen.variant = "S"

NextSame ==
    \/ \E c \in CoreIds : Worker(c)
    \/ \E p \in ProcIds : SchedulerS(p)
    \/ Reenter

SameGraphSpec == InitSame /\ [][NextSame]_vars

\* C31: status moves only forward.  During every call of execute_graph, its
\* marking loop and a repeated call on the same graph included, a status
\* changes only from Pending to Ready, from Ready to Running or from Running
\* to Complete, and never decreases.
C31_StatusForward ==
    [][\A t \in Tasks(G) :
          pg'.status[t] # pg.status[t] =>
             pg'.status[t] = pg.status[t] + 1]_vars

\* C31, the first call only: the same steps while the host has launched the
\* server once.
C31_FirstCallForward ==
    [][host.execs = 1 =>
         \A t \in Tasks(G) :
            pg'.status[t] # pg.status[t] =>
               pg'.status[t] = pg.status[t] + 1]_vars

\* The cells of thread p's cur_thread_cores that hold a task.
BusyCells(p) == { c \in OwnedCells(p) : hank[c].task # 0 }

C33_RerunRespectsDag ==
    host.execs >= 2 =>
        /\ \A v \in Tasks(G) :
              Dispatched(v) => \A u \in Preds(G, v) : Collected(u)
        /\ AllReturned =>
              \A v \in Tasks(G) : Dispatched(v) /\ Collected(v)

\* ------------------------------------------------------- kernel registry
A2A3_ERROR_BINARY_LOAD_FAILED == -8

\* The device addresses aclrtMalloc can hand out, and the func_ids asked for.
MaxAddrs == 4
DevAddrs == 1 .. MaxAddrs
FuncIds == {-1, 0, 1, A2A3_MAX_KERNELS - 1, A2A3_MAX_KERNELS}

\* a2a3_get_function_bin_addr and a2a3_load_kernel_to_device, first test.
ValidFuncId(func_id) == func_id >= 0 /\ func_id < A2A3_MAX_KERNELS

\* a2a3_get_function_bin_addr(func_id): the address returned is recorded in
\* got.
a2a3_get_function_bin_addr(func_id) ==
    /\ host.pc = "idle"
    /\ host' = [host EXCEPT
          !.got = [func_id |-> func_id,
                   addr |-> IF ValidFuncId(func_id)
                              THEN host.g_kernel_func_table[func_id] ELSE 0],
          !.last = [call |-> "get", rc |-> A2A3_SUCCESS]]
    /\ UNCHANGED << scen, hank, wpc, wtask, spc, th, mgr, ex, fanin, pg, hist >>

\* The steps of a2a3_load_kernel_to_device that can fail, and their codes.
LoadSteps == {"fopen", "malloc", "fread", "aclrtMalloc", "aclrtMemcpy"}

LoadError(fail) ==
    CASE fail \in {"fopen", "fread"} -> A2A3_ERROR_BINARY_LOAD_FAILED
      [] fail \in {"malloc", "aclrtMalloc"} -> A2A3_ERROR_MEMORY_ALLOC
      [] OTHER -> A2A3_ERROR_DEVICE_LAUNCH

\* The addresses the registry holds: aclrtMalloc returns none of them.
LiveKernels(table) == { table[i] : i \in DOMAIN table } \ {0}

\* a2a3_compile_and_load_kernel(func_id, cpp_path, ...) with the step of the
\* load that fails (or "none") and the address aclrtMalloc returns.  The stub
\* build refuses every call; the old kernel of the id is freed and the new
\* address stored only after the copy to the device succeeded.
a2a3_compile_and_load_kernel(func_id, path, fail, dev_ptr) ==
    /\ host.pc = "idle"
    /\ UNCHANGED << scen, hank, wpc, wtask, spc, th, mgr, ex, fanin, pg, hist >>
    /\ IF ~host.cann \/ NotInitialized(host)
       THEN /\ path /\ fail = "none" /\ dev_ptr = 0
            /\ host' = [host EXCEPT
                  !.got = [func_id |-> func_id, addr |-> 0],
                  !.last = [call |-> "load", rc |-> A2A3_ERROR_NOT_INITIALIZED]]
       ELSE IF ~ValidFuncId(func_id) \/ ~path
       THEN /\ fail = "none" /\ dev_ptr = 0
            /\ host' = [host EXCEPT
                  !.got = [func_id |-> func_id, addr |-> 0],
                  !.last = [call |-> "load", rc |-> A2A3_ERROR_INVALID_CONFIG]]
       ELSE IF fail # "none"
       THEN /\ dev_ptr = 0
            /\ host' = [host EXCEPT
                  !.got = [func_id |-> func_id, addr |-> 0],
                  !.last = [call |-> "load", rc |-> LoadError(fail)]]
       ELSE /\ dev_ptr \in DevAddrs \ LiveKernels(host.g_kernel_func_table)
            /\ host' = [host EXCEPT
                  !.g_kernel_func_table[func_id] = dev_ptr,
                  !.loaded[func_id] = dev_ptr,
                  !.got = [func_id |-> func_id, addr |-> dev_ptr],
                  !.last = [call |-> "load", rc |-> A2A3_SUCCESS]]

\* The configuration the registry is exercised under.
RegistryConfig ==
    [num_aic_workers |-> 1, num_aiv_workers |-> 1, num_dep_threads |-> 1,
     aicpu_kernel_path |-> TRUE, aicore_kernel_path |-> TRUE]

RegistryNext ==
    \/ a2a3_runtime_init(RegistryConfig, "none", {})
    \/ a2a3_runtime_finalize
    \/ \E func_id \in FuncIds : a2a3_get_function_bin_addr(func_id)
    \/ \E func_id \in FuncIds : \E path \in BOOLEAN :
       \E fail \in LoadSteps \cup {"none"} : \E dev_ptr \in DevAddrs \cup {0} :
          a2a3_compile_and_load_kernel(func_id, path, fail, dev_ptr)

RegistrySpec == HostInit /\ [][RegistryNext]_vars

\* C34: kernel registry.  a2a3_get_function_bin_addr returns, for a func_id
\* in [0, 256), the address stored by the most recent successful load of
\* that id, and NULL for an id out of range, never loaded or after finalize;
\* a failing load leaves every entry unchanged; a successful load changes
\* only the entry of its own func_id.
C34_KernelRegistry ==
    [][/\ HostCall("get") =>
             host'.got.addr =
                IF host'.got.func_id \in 0 .. 255
                  THEN host.loaded[host'.got.func_id] ELSE 0
       /\ (HostCall("load") /\ host'.last.rc # A2A3_SUCCESS) =>
             host'.g_kernel_func_table = host.g_kernel_func_table
       /\ (HostCall("load") /\ host'.last.rc = A2A3_SUCCESS) =>
             \A i \in 0 .. 255 :
                i # host'.got.func_id =>
                   host'.g_kernel_func_table[i] = host.g_kernel_func_table[i]]_vars

\* C34 witness: the last call asked for func_id 255 and got the address
\* loaded for it, while func_id 0 holds another address and func_id 1 none.
C34_Witness ==
    /\ host.last.call = "get"
    /\ host.got.func_id = A2A3_MAX_KERNELS - 1
    /\ host.got.addr = 2
    /\ host.g_kernel_func_table[0] = 1
    /\ host.g_kernel_func_table[1] = 0

\* ------------------------------------------ a later call after a failed Init
\* Every thread of a call of the multi-threaded server has returned -1; the
\* server is called again in the same process, with any configuration.  The
\* statics of the library (g_mt_mgr and those of graphexecutor.cpp) stay as
\* the failed call left them; cells, workers and graph are those of the new
\* launch.
CallAgain ==
    /\ IsM
    /\ host.execs < MaxExecs
    /\ \A p \in Procs : spc[p] = "returned" /\ th[p].rc = -1
    /\ \E s \in { sc \in Scenarios : sc.variant = "M" } :
          /\ scen' = s
          /\ hank' = [c \in 0 .. (s.nrAic + s.nrAiv - 1) |-> ResetCell(c, s.nrAic)]
          /\ wpc' = [c \in 0 .. (s.nrAic + s.nrAiv - 1) |-> "wait_ready"]
          /\ wtask' = [c \in 0 .. (s.nrAic + s.nrAiv - 1) |-> 0]
          /\ spc' = [p \in 1 .. s.scheCpuNum |-> "server"]
          /\ th' = [p \in 1 .. s.scheCpuNum |-> ThreadInit]
          /\ fanin' = [t \in Tasks(s.graph) |-> InDegree(s.graph, t)]
          /\ pg' = [status |-> [t \in Tasks(s.graph) |-> PTO_TASK_PENDING],
                    deps_remaining |-> [t \in Tasks(s.graph) |-> InDegree(s.graph, t)],
                    tasks_completed |-> 0]
          /\ hist' = HistInitial(s)
    /\ host' = [execs |-> host.execs + 1, prev |-> -1, start |-> ex]
    /\ UNCHANGED << mgr, ex >>

NextSticky == Next \/ CallAgain

StickySpec == Init /\ [][NextSticky]_vars

\* C35: Init failure is sticky.  Once Init has set init_failed_, no step
\* changes the manager (initialized_ and init_failed_ stay set, init_done_
\* stays clear, the body of Init is not run again), and in that call and in
\* every later call of the server, whatever its configuration, no thread
\* gets past the wait for init_done_ and every thread that returns returns
\* -1.
C35_InitFailureSticky ==
    /\ [](mgr.init_failed_ =>
            /\ mgr.initialized_ /\ ~mgr.init_done_
            /\ \A p \in Procs :
                  /\ spc[p] \in {"server", "init_wait", "returned"}
                  /\ spc[p] = "returned" => th[p].rc = -1)
    /\ [][mgr.init_failed_ => mgr' = mgr]_vars

\* C35 witness: a later call with a configuration Init would accept, on two
\* threads, has ended with -1 from both.
C35_Witness ==
    /\ host.execs >= 2
    /\ IsM /\ ~InvalidConfig /\ scen.scheCpuNum = 2
    /\ mgr.init_failed_
    /\ \A p \in Procs : spc[p] = "returned" /\ th[p].rc = -1

\* ------------------------------------- task completion by the core workers
\* a2a3_core_complete_task (a2a3_core_worker.c; the CANN build and the stub
\* build have the same body).  The runtime context rt is kept in host, the
\* locals of the calling threads in th and their positions in spc.  The
\* tasks were submitted before the calls start and fit the window, so the
\* slot of a task is its id.  In a launch of variant "W" the threads are the
\* worker threads, which complete the tasks they took from the ready queues,
\* each task once; in a launch of variant "A" a2a3_core_complete_task is
\* called with any task_id, in any order and any number of times.
MaxCalls == 5

CoreLaunches ==
    { [variant |-> v, nrAic |-> 1, nrAiv |-> 1, scheCpuNum |-> 2, graph |-> g] :
        v \in {"W", "A"}, g \in {Diamond, Join, CubeVec} }

IsW == scen.variant = "W"
IsCore == scen \in CoreLaunches

\* pend_task: one slot more than tasks, so that task_id == next_task_id has a
\* slot of its own.
PendInitial(g) ==
    [s \in 0 .. MaxTasks |->
        [is_complete |-> FALSE,
         fanin |-> IF s < g.n THEN InDegree(g, s) ELSE 0]]

CoreFanout(t) == IF t \in Tasks(G) THEN FanoutOf(G, t) ELSE << >>

\* rt after the orchestrator has submitted the graph: the tasks without
\* predecessor are in the ready queues; routed counts the times a task was
\* put on a ready queue, calls the calls of a2a3_core_complete_task.
RtInitial(g) ==
    [next_task_id |-> g.n, window_oldest_pending |-> 0,
     active_task_count |-> g.n, total_tasks_completed |-> 0,
     total_tasks_scheduled |-> g.n,
     pend_task |-> PendInitial(g), task_mutex |-> 0,
     queue |-> { t \in Tasks(g) : InDegree(g, t) = 0 },
     routed |-> [t \in Tasks(g) |-> IF InDegree(g, t) = 0 THEN 1 ELSE 0],
     calls |-> 0]

CallerInit == [task_id |-> -1, i |-> 0, tmp |-> 0, newly_ready |-> << >>]

CoreInit ==
    /\ scen \in CoreLaunches
    /\ host = RtInitial(scen.graph)
    /\ th = [p \in 1 .. scen.scheCpuNum |-> CallerInit]
    /\ spc = [p \in 1 .. scen.scheCpuNum |-> "idle"]
    /\ hank = << >>
    /\ wpc = << >>
    /\ wtask = << >>
    /\ mgr = MgrInitial
    /\ ex = ExInitial
    /\ fanin = << >>
    /\ pg = << >>
    /\ hist = HistInitial(scen)

\* A worker thread takes a task from a ready queue and, the kernel run,
\* calls a2a3_core_complete_task with it (worker functions, lines 250-261);
\* any other caller passes any task_id.
complete_call(p, task_id) ==
    /\ p \in Procs /\ spc[p] = "idle"
    /\ host.calls < MaxCalls
    /\ IF IsW THEN task_id \in host.queue
              ELSE task_id \in -1 .. host.next_task_id
    /\ host' = [host EXCEPT !.queue = @ \ {task_id}, !.calls = @ + 1]
    /\ th' = [th EXCEPT ![p] = [CallerInit EXCEPT !.task_id = task_id]]
    /\ spc' = [spc EXCEPT ![p] = "check"]
    /\ UNCHANGED << scen, hank, wpc, wtask, mgr, ex, fanin, pg, hist >>

\* Lines 105, 173: the task_id is in [0, next_task_id).
ValidTaskId(rt, task_id) == task_id >= 0 /\ task_id < rt.next_task_id

\* Lines 105-108: a call with a task_id out of range returns at once.
complete_check(p) ==
    /\ p \in Procs /\ spc[p] = "check"
    /\ spc' = [spc EXCEPT ![p] =
                 IF ValidTaskId(host, th[p].task_id) THEN "lock" ELSE "idle"]
    /\ UNCHANGED << scen, host, hank, wpc, wtask, th, mgr, ex, fanin, pg, hist >>

\* A mutex that never blocks.
MutexFree_Always(m) == TRUE

\* pthread_mutex_lock(&rt->task_mutex) returns when the mutex is free.
MutexFree(m) == m = 0

complete_lock(p) ==
    /\ p \in Procs /\ spc[p] = "lock"
    /\ MutexFree(host.task_mutex)
    /\ host' = [host EXCEPT !.task_mutex = p]
    /\ spc' = [spc EXCEPT ![p] = "mark"]
    /\ UNCHANGED << scen, hank, wpc, wtask, th, mgr, ex, fanin, pg, hist >>

\* A window that moves by one task at most.
WindowAdvance_Once(oldest, next, pend) ==
    IF oldest < next /\ pend[oldest].is_complete THEN oldest + 1 ELSE oldest

\* Lines 121-127: the window moves over every complete task at its start.
RECURSIVE WindowAdvance(_, _, _)
WindowAdvance(oldest, next, pend) ==
    IF oldest < next /\ pend[oldest].is_complete
      THEN WindowAdvance(oldest + 1, next, pend)
      ELSE oldest

\* Lines 113-127: the task is marked complete, the counters are updated and
\* the window is advanced.
complete_mark(p) ==
    /\ p \in Procs /\ spc[p] = "mark"
    /\ LET pend == [host.pend_task EXCEPT ![th[p].task_id].is_complete = TRUE]
       IN  host' = [host EXCEPT
              !.pend_task = pend,
              !.active_task_count = @ - 1,
              !.total_tasks_completed = @ + 1,
              !.window_oldest_pending =
                  WindowAdvance(@, host.next_task_id, pend)]
    /\ th' = [th EXCEPT ![p].i = 0, ![p].newly_ready = << >>]
    /\ spc' = [spc EXCEPT ![p] = "fanin_read"]
    /\ UNCHANGED << scen, hank, wpc, wtask, mgr, ex, fanin, pg, hist >>

\* Lines 135-140, the read half of dep_task->fanin--; after the last
\* dependent the mutex is released (line 152).
complete_fanin_read(p) ==
    /\ p \in Procs /\ spc[p] = "fanin_read"
    /\ IF th[p].i < Len(CoreFanout(th[p].task_id))
         THEN /\ th' = [th EXCEPT ![p].tmp =
                          host.pend_task[CoreFanout(th[p].task_id)[th[p].i + 1]].fanin]
              /\ host' = host
              /\ spc' = [spc EXCEPT ![p] = "fanin_write"]
         ELSE /\ th' = [th EXCEPT ![p].i = 0]
              /\ host' = [host EXCEPT !.task_mutex =
                             IF @ = p THEN 0 ELSE @]
              /\ spc' = [spc EXCEPT ![p] = "route"]
    /\ UNCHANGED << scen, hank, wpc, wtask, mgr, ex, fanin, pg, hist >>

\* Lines 140-144: the write half of the decrement, and the dependent is
\* noted as newly ready when its fan-in is 0 and it is not complete.
complete_fanin_write(p) ==
    /\ p \in Procs /\ spc[p] = "fanin_write"
    /\ LET dep_id == CoreFanout(th[p].task_id)[th[p].i + 1]
           value == th[p].tmp - 1
       IN  /\ host' = [host EXCEPT !.pend_task[dep_id].fanin = value]
           /\ th' = [th EXCEPT
                 ![p].i = @ + 1,
                 ![p].newly_ready =
                     IF value = 0 /\ ~host.pend_task[dep_id].is_complete
                       THEN Append(@, dep_id) ELSE @]
    /\ spc' = [spc EXCEPT ![p] = "fanin_read"]
    /\ UNCHANGED << scen, hank, wpc, wtask, mgr, ex, fanin, pg, hist >>

\* Lines 155-157: the newly ready tasks are routed to the ready queues, one
\* per step, and the call returns.
complete_route(p) ==
    /\ p \in Procs /\ spc[p] = "route"
    /\ IF th[p].i < Len(th[p].newly_ready)
         THEN /\ host' = [host EXCEPT
                    !.queue = @ \cup {th[p].newly_ready[th[p].i + 1]},
                    !.routed[th[p].newly_ready[th[p].i + 1]] = @ + 1]
              /\ th' = [th EXCEPT ![p].i = @ + 1]
              /\ spc' = spc
         ELSE /\ host' = host
              /\ th' = [th EXCEPT ![p] = CallerInit]
              /\ spc' = [spc EXCEPT ![p] = "idle"]
    /\ UNCHANGED << scen, hank, wpc, wtask, mgr, ex, fanin, pg, hist >>

CoreNext ==
    \E p \in ProcIds :
       \/ \E task_id \in -1 .. MaxTasks : complete_call(p, task_id)
       \/ complete_check(p)
       \/ complete_lock(p)
       \/ complete_mark(p)
       \/ complete_fanin_read(p)
       \/ complete_fanin_write(p)
       \/ complete_route(p)

CoreSpec == CoreInit /\ [][CoreNext]_vars

\* The tasks marked complete, and the calls that have not yet marked theirs.
CompleteTasks == { t \in Tasks(G) : host.pend_task[t].is_complete }
CallsBeforeMark ==
    Cardinality({ p \in Procs : spc[p] \in {"check", "lock", "mark"} })

\* A call holds task v as newly ready and has not routed it yet.
AboutToRoute(v) ==
    \E p \in Procs :
       /\ spc[p] \in {"fanin_read", "fanin_write", "route"}
       /\ \E k \in 1 .. Len(th[p].newly_ready) :
             /\ th[p].newly_ready[k] = v
             /\ spc[p] = "route" => k > th[p].i

\* C36: a2a3_core_complete_task is thread-safe.  With worker threads
\* completing distinct tasks concurrently, total_tasks_completed counts one
\* per call that has marked its task; no task is routed to a ready queue
\* twice; and whenever no call is inside the critical section, the fan-in of
\* each dependent is its number of predecessors less the completed ones, and
\* a dependent has fan-in 0 exactly when the call that brought it there has
\* routed it or is about to.
C36_CompleteThreadSafe ==
    IsW =>
        /\ host.total_tasks_completed = host.calls - CallsBeforeMark
        /\ host.total_tasks_completed = Cardinality(CompleteTasks)
        /\ \A v \in Tasks(G) : host.routed[v] <= 1
        /\ host.task_mutex = 0 =>
              \A v \in Tasks(G) :
                 /\ host.pend_task[v].fanin =
                       InDegree(G, v) - Cardinality(Preds(G, v) \cap CompleteTasks)
                 /\ InDegree(G, v) > 0 =>
                       ((host.pend_task[v].fanin = 0) <=>
                           (host.routed[v] = 1 \/ AboutToRoute(v)))

\* C36 witness: two worker threads complete the two predecessors of one task
\* at the same time: one is inside the critical section about to write the
\* decremented fan-in, the other waits for the mutex.
C36_Witness ==
    /\ IsW
    /\ \E p, q \in Procs :
          /\ spc[p] = "fanin_write" /\ host.task_mutex = p
          /\ spc[q] = "lock"
          /\ \E v \in Tasks(G) :
                {th[p].task_id, th[q].task_id} = Preds(G, v)
                   /\ th[p].task_id # th[q].task_id

\* The fields of rt that a2a3_core_complete_task can write.
RtState(rt) == [rt EXCEPT !.calls = 0]

\* A step of a call of thread p whose task_id is outside [0, next_task_id):
\* the call is made, or its range test is passed.
InvalidCallStep(p) ==
    /\ spc[p] \in {"idle", "check"}
    /\ spc'[p] # spc[p]
    /\ th'[p].task_id \notin 0 .. (host.next_task_id - 1)

\* The step leaves rt as it was, and the range test ends the call.
RtKept(p) ==
    /\ RtState(host') = RtState(host)
    /\ spc[p] = "check" => spc'[p] = "idle"

WindowMoved == host'.window_oldest_pending >= host.window_oldest_pending

\* C37: sliding window.  window_oldest_pending never decreases and never
\* exceeds next_task_id, every id below it is complete, and it stands at the
\* first task that is not complete (or at next_task_id); a call with a
\* task_id outside [0, next_task_id) changes nothing in rt.
C37_SlidingWindow ==
    /\ [](IsCore =>
            /\ host.window_oldest_pending \in 0 .. host.next_task_id
            /\ \A t \in 0 .. (host.window_oldest_pending - 1) :
                  host.pend_task[t].is_complete
            /\ \/ host.window_oldest_pending = host.next_task_id
               \/ ~host.pend_task[host.window_oldest_pending].is_complete)
    /\ [][IsCore =>
            (WindowMoved /\ \A p \in Procs : InvalidCallStep(p) => RtKept(p))]_vars

\* C37 witness: tasks were completed out of order, so that the window stands
\* at task 2 with task 3 complete behind it, while a call with
\* task_id == next_task_id is being made.
C37_Witness ==
    /\ scen.variant = "A"
    /\ host.window_oldest_pending = 2
    /\ host.next_task_id = 4
    /\ host.pend_task[3].is_complete
    /\ \E p \in Procs : spc[p] = "check" /\ th[p].task_id = host.next_task_id

\* ------------------------------------------- the sequential reference run
\* execute_graph of hello_world.cpp, lines 67-78: the fan-in of each
\* successor deps[k], deps[k+1], ... is decremented and the successor is
\* pushed on ready_queue when it reaches 0.
RECURSIVE SeqFanout(_, _, _)
SeqFanout(st, deps, k) ==
    IF k > Len(deps) THEN st
    ELSE LET dep_id == deps[k]
             value == st.fanin[dep_id] - 1
         IN  SeqFanout([st EXCEPT
                           !.fanin[dep_id] = value,
                           !.ready_queue = IF value = 0 THEN Append(@, dep_id)
                                           ELSE @],
                       deps, k + 1)

\* Lines 58-79: while ready_count > 0 the task on top of the stack is
\* popped, counted and its successors are updated.
RECURSIVE SeqLoop(_, _)
SeqLoop(g, st) ==
    IF Len(st.ready_queue) = 0 THEN st
    ELSE LET task_id == st.ready_queue[Len(st.ready_queue)]
             popped == [st EXCEPT
                           !.ready_queue = SubSeq(@, 1, Len(@) - 1),
                           !.executed = Append(@, task_id)]
         IN  SeqLoop(g, SeqFanout(popped, FanoutOf(g, task_id), 1))

\* execute_graph(g) of hello_world.cpp: the tasks in the order in which the
\* sequential reference executes them; its return value is their number.
execute_graph(g) ==
    SeqLoop(g, [ready_queue |->
                    get_initial_ready_tasks(g, [t \in Tasks(g) |-> InDegree(g, t)]),
                fanin |-> [t \in Tasks(g) |-> InDegree(g, t)],
                executed |-> << >>]).executed

CollectedSet == { t \in Tasks(G) : Collected(t) }

SeqReady(g, done) == { t \in Tasks(g) \ done : Preds(g, t) \subseteq done }

TASK_QUEUE_DEPTH == 256
MaxSubmits == 257

QueueLaunch ==
    [variant |-> "Q", nrAic |-> 1, nrAiv |-> 1, scheCpuNum |-> 1, graph |-> Empty]

\* init_context: the context is zeroed.
ContextInitial ==
    [task_queue |-> [k \in 0 .. (TASK_QUEUE_DEPTH - 1) |-> 0],
     queue_head |-> 0, queue_tail |-> 0,
     hpc |-> "submit", dpc |-> "not_started",
     submitted |-> 0, nread |-> 0, task |-> 0]

QueueInit ==
    /\ scen = QueueLaunch
    /\ host = ContextInitial
    /\ th = << >>
    /\ spc = << >>
    /\ hank = << >>
    /\ wpc = << >>
    /\ wtask = << >>
    /\ mgr = MgrInitial
    /\ ex = ExInitial
    /\ fanin = << >>
    /\ pg = << >>
    /\ hist = HistInitial(scen)

QueueParked == UNCHANGED << scen, hank, wpc, wtask, spc, th, mgr, ex, fanin, pg, hist >>

\* Lines 58, 71: the next position of the ring.
NextSlot(i) == (i + 1) % TASK_QUEUE_DEPTH

\* submit_task, step 1 (line 51): the task is written into the slot at
\* queue_tail.
submit_task_write ==
    /\ host.hpc = "submit"
    /\ host.submitted < MaxSubmits
    /\ host' = [host EXCEPT
          !.task_queue[host.queue_tail] = host.submitted + 1,
          !.submitted = @ + 1,
          !.hpc = "doorbell"]
    /\ QueueParked

\* submit_task, steps 2 and 3 (lines 54-58): after the barrier queue_tail is
\* advanced.
submit_task_doorbell ==
    /\ host.hpc = "doorbell"
    /\ host' = [host EXCEPT !.queue_tail = NextSlot(@), !.hpc = "submit"]
    /\ QueueParked

\* host_main_entry, lines 99-101: having submitted, the host waits until
\* queue_head == queue_tail; then it frees the memory.
host_wait ==
    /\ host.hpc \in {"submit", "wait"}
    /\ host.submitted >= 1
    /\ host' = [host EXCEPT !.hpc =
                   IF host.queue_head = host.queue_tail THEN "done" ELSE "wait"]
    /\ QueueParked

\* device_main_entry is started.
device_main_entry ==
    /\ host.dpc = "not_started"
    /\ host.hpc # "done"
    /\ host' = [host EXCEPT !.dpc = "test"]
    /\ QueueParked

\* device_main_entry, line 109: the loop test; the entry returns when the
\* queue looks empty.
device_test ==
    /\ host.dpc = "test"
    /\ host.hpc # "done"
    /\ host' = [host EXCEPT !.dpc =
                   IF host.queue_head # host.queue_tail THEN "read" ELSE "returned"]
    /\ QueueParked

\* read_task, step 1 (line 64): the slot at queue_head is read.
read_task_read ==
    /\ host.dpc = "read"
    /\ host.hpc # "done"
    /\ host' = [host EXCEPT
          !.task = host.task_queue[host.queue_head],
          !.nread = @ + 1,
          !.dpc = "head"]
    /\ QueueParked

\* read_task, steps 2 and 3 (lines 67-71): queue_head is advanced.
read_task_head ==
    /\ host.dpc = "head"
    /\ host.hpc # "done"
    /\ host' = [host EXCEPT !.queue_head = NextSlot(@), !.dpc = "test"]
    /\ QueueParked

QueueNext ==
    \/ submit_task_write
    \/ submit_task_doorbell
    \/ host_wait
    \/ device_main_entry
    \/ device_test
    \/ read_task_read
    \/ read_task_head

QueueSpec == QueueInit /\ [][QueueNext]_vars

\* C40: shared-memory task queue.  With one submitter and one reader, for
\* every number of submitted tasks, each read_task returns the next task in
\* submission order (a slot published by the doorbell, each task once), and
\* when the host's wait for queue_head == queue_tail ends the device has
\* read every task the host submitted.
C40_TaskQueue ==
    /\ [](host.dpc = "head" => host.task = host.nread)
    /\ [](host.hpc = "done" => host.nread = host.submitted)

\* C40, below the depth of the ring: the same, while fewer than
\* TASK_QUEUE_DEPTH tasks have been submitted.
C40_BelowDepth ==
    host.submitted < TASK_QUEUE_DEPTH =>
        /\ host.dpc = "head" => host.task = host.nread
        /\ host.hpc = "done" => host.nread = host.submitted

\* ------------------------------ the single-scheduler kernel entered twice
\* DynTileFwkBackendKernelServer of aicpu_kernel.cpp entered by two AICPU
\* threads with the same kernel arguments: each takes an id from
\* s_thread_id and runs handshake_aicore, execute_graph and shutdown_aicore
\* on the same cells and the same graph.
ConcurrentLaunch ==
    [variant |-> "S", nrAic |-> 1, nrAiv |-> 1, scheCpuNum |-> 2, graph |-> CubeVec]

InitConcurrent ==
    /\ scen = ConcurrentLaunch
    /\ hank = [c \in 0 .. (scen.nrAic + scen.nrAiv - 1) |-> ResetCell(c, scen.nrAic)]
    /\ wpc = [c \in 0 .. (scen.nrAic + scen.nrAiv - 1) |-> "wait_ready"]
    /\ wtask = [c \in 0 .. (scen.nrAic + scen.nrAiv - 1) |-> 0]
    /\ spc = [p \in 1 .. scen.scheCpuNum |-> "handshake_ready"]
    /\ th = [p \in 1 .. scen.scheCpuNum |-> ThreadInit]
    /\ mgr = MgrInitial
    /\ ex = ExInitial
    /\ fanin = [t \in Tasks(scen.graph) |-> InDegree(scen.graph, t)]
    /\ pg = [status |-> [t \in Tasks(scen.graph) |-> PTO_TASK_PENDING],
             deps_remaining |-> [t \in Tasks(scen.graph) |-> InDegree(scen.graph, t)],
             tasks_completed |-> 0]
    /\ hist = HistInitial(scen)
    /\ host = HostInitial

NextConcurrent ==
    \/ \E c \in CoreIds : Worker(c)
    \/ \E p \in ProcIds : SchedulerS(p)

ConcurrentSpec == InitConcurrent /\ [][NextConcurrent]_vars

\* C39: concurrent entry of the single-scheduler kernel.  Each task is
\* assigned to at most one core and marked Complete at most once, and when
\* the threads of the server have returned tasks_completed equals num_tasks.
C39_ConcurrentEntry ==
    IsS =>
        /\ \A t \in Tasks(G) : hist.disp[t] <= 1 /\ hist.coll[t] <= 1
        /\ AllReturned => pg.tasks_completed = G.n

====
